---- MODULE Spec2Model ----
(***************************************************************************)
(* A model of express-template-mock-server: the request pipeline that      *)
(* src/lib/server.js registers on the Express application, and the         *)
(* lifecycle around it (start, hot reload, graceful shutdown, stop).       *)
(*                                                                         *)
(* The lifecycle and the pipeline are those of src/src/lib/server.js.      *)
(* That revision declares state.watcher and closes it on shutdown, but     *)
(* the registration of the file watcher lives in the preceding revision    *)
(* of the same module (src/unnamed/part_006, startServer); the reload      *)
(* handler is modelled from there.                                         *)
(*                                                                         *)
(* Express is modelled by what the code relies on: app.use / app.METHOD    *)
(* append a layer to the router stack, and a request walks the stack in    *)
(* order until a layer answers it.  Body parsing is a pass-through layer   *)
(* (request bodies are well-formed); of the cors middleware the model      *)
(* keeps the answer to a preflight request, not the headers it injects.    *)
(***************************************************************************)
EXTENDS Integers, Sequences, FiniteSets, TLC

(***************************************************************************)
(* Bounds of the model.                                                    *)
(***************************************************************************)
MaxSetups == 2      \* times setupMiddleware/setupRoutes may run (starts + reloads)
MaxInflight == 1    \* requests suspended in a delay at the same time
MaxConns == 1       \* open connections per listener
MaxPendingLoads == 1 \* reload handlers waiting for readFile at the same time
MaxSignals == 2     \* SIGTERM/SIGINT signals delivered to the process
MaxPipeConns == 2   \* open connections per listener when the pipeline is checked
MaxLag == 1         \* milliseconds by which a handler step or a timer may run late

(***************************************************************************)
(* JSON values.  A value is tagged with its JavaScript type, so that       *)
(* typeof / Array.isArray / truthiness can be decided as the code does.    *)
(***************************************************************************)
JStr(s) == [t |-> "str", s |-> s]
JNum(n) == [t |-> "num", n |-> n]
JBool(b) == [t |-> "bool", b |-> b]
JNull == [t |-> "null"]
JObj(o) == [t |-> "obj", o |-> o]
JArr(a) == [t |-> "arr", a |-> a]
JUndef == [t |-> "undef"]
EmptyObj == JObj(<<>>)

Has(r, k) == k \in DOMAIN r

\* JavaScript truthiness of a value.
Truthy(j) ==
  CASE j.t = "str" -> j.s # ""
    [] j.t = "num" -> j.n # 0
    [] j.t = "bool" -> j.b
    [] j.t = "null" -> FALSE
    [] j.t = "undef" -> FALSE
    [] OTHER -> TRUE

\* The characters of the strings that stand where an object is expected.
Chars(s) ==
  CASE s = "" -> <<>>
    [] s = "ab" -> <<"a", "b">>
    [] OTHER -> <<s>>

\* The indexed properties of an array or of a string: "0", "1", ...
IndexEntries(seq) ==
  [k \in {ToString(i - 1) : i \in DOMAIN seq} |->
     seq[CHOOSE i \in DOMAIN seq : ToString(i - 1) = k]]

\* The own enumerable properties of a value.
OwnProps(j) ==
  CASE j.t = "obj" -> j.o
    [] j.t = "arr" -> IndexEntries(j.a)
    [] j.t = "str" -> IndexEntries([i \in DOMAIN Chars(j.s) |-> JStr(Chars(j.s)[i])])
    [] OTHER -> <<>>

\* value[key] (undefined when the key is absent).
Prop(j, k) == IF Has(OwnProps(j), k) THEN OwnProps(j)[k] ELSE JUndef

\* a !== b is false only for two primitives of the same type and value:
\* objects and arrays parsed from different documents are different
\* references.
StrictEq(a, b) ==
  /\ a.t = b.t
  /\ CASE a.t = "str" -> a.s = b.s
       [] a.t = "num" -> a.n = b.n
       [] a.t = "bool" -> a.b = b.b
       [] a.t = "null" -> TRUE
       [] a.t = "undef" -> TRUE
       [] OTHER -> FALSE

(***************************************************************************)
(* Templates.  Handlebars.compile turns a string into literal text and     *)
(* mustache expressions; Compile gives that parse for the strings the      *)
(* configurations below use (any other string is literal text).            *)
(***************************************************************************)
Lit(s) == [k |-> "lit", s |-> s]
Var(v) == [k |-> "var", v |-> v]
Unparsable == [k |-> "unparsable"]

Compile(s) ==
  CASE s = "" -> <<>>
    [] s = "{{id}}" -> <<Var("id")>>
    [] s = "User {{id}}" -> <<Lit("User "), Var("id")>>
    [] s = "{{type}}" -> <<Var("type")>>
    [] s = "{{invalid}}" -> <<Var("invalid")>>
    [] s = "{{responseTime}}" -> <<Var("responseTime")>>
    [] s = "{{id" -> <<Unparsable>>
    [] OTHER -> <<Lit(s)>>

\* Compiling or evaluating the template throws (a parse error).
CompileThrows(s) == \E i \in DOMAIN Compile(s) : Compile(s)[i].k = "unparsable"

\* The text a mustache expression renders: the value of the context field,
\* or nothing when the context does not define it.
RenderToken(tok, data) ==
  IF tok.k = "lit" THEN tok.s
  ELSE IF tok.k = "var" /\ Has(data, tok.v) THEN data[tok.v] ELSE ""

RECURSIVE RenderTokens(_, _)
RenderTokens(toks, data) ==
  IF toks = <<>> THEN ""
  ELSE RenderToken(Head(toks), data) \o RenderTokens(Tail(toks), data)

\* processTemplate: [ok, s]; ok = FALSE stands for the thrown
\* 'Template processing error'.  The template is a JSON value.
TemplateFail == [ok |-> FALSE, s |-> ""]

\* processTemplate without the check of the result.
processTemplate_allowsEmpty(template, data) ==
  IF template.t # "str" THEN TemplateFail
  ELSE IF CompileThrows(template.s) THEN TemplateFail
  ELSE [ok |-> TRUE, s |-> RenderTokens(Compile(template.s), data)]

processTemplate(template, data) ==
  IF template.t # "str" THEN TemplateFail
  ELSE IF CompileThrows(template.s) THEN TemplateFail
  ELSE LET result == RenderTokens(Compile(template.s), data)
       IN IF result = "" THEN TemplateFail ELSE [ok |-> TRUE, s |-> result]

\* processJsonTemplate: [ok, j]; ok = FALSE stands for the thrown error.
\* processJsonTemplate whose object branch lacks the test json !== null:
\* Object.entries(null) throws.
RECURSIVE processJsonTemplate_nullIsObject(_, _)
processJsonTemplate_nullIsObject(json, data) ==
  CASE json.t = "str" ->
         LET r == processTemplate(json, data)
         IN IF r.ok THEN [ok |-> TRUE, j |-> JStr(r.s)] ELSE [ok |-> FALSE, j |-> JUndef]
    [] json.t = "arr" ->
         LET rs == [i \in DOMAIN json.a |-> processJsonTemplate_nullIsObject(json.a[i], data)]
         IN IF \A i \in DOMAIN rs : rs[i].ok
            THEN [ok |-> TRUE, j |-> JArr([i \in DOMAIN rs |-> rs[i].j])]
            ELSE [ok |-> FALSE, j |-> JUndef]
    [] json.t = "obj" ->
         LET rs == [k \in DOMAIN json.o |-> processJsonTemplate_nullIsObject(json.o[k], data)]
         IN IF \A k \in DOMAIN rs : rs[k].ok
            THEN [ok |-> TRUE, j |-> JObj([k \in DOMAIN rs |-> rs[k].j])]
            ELSE [ok |-> FALSE, j |-> JUndef]
    [] json.t = "null" -> [ok |-> FALSE, j |-> JUndef]
    [] OTHER -> [ok |-> TRUE, j |-> json]

RECURSIVE processJsonTemplate(_, _)
processJsonTemplate(json, data) ==
  CASE json.t = "str" ->
         LET r == processTemplate(json, data)
         IN IF r.ok THEN [ok |-> TRUE, j |-> JStr(r.s)] ELSE [ok |-> FALSE, j |-> JUndef]
    [] json.t = "arr" ->
         LET rs == [i \in DOMAIN json.a |-> processJsonTemplate(json.a[i], data)]
         IN IF \A i \in DOMAIN rs : rs[i].ok
            THEN [ok |-> TRUE, j |-> JArr([i \in DOMAIN rs |-> rs[i].j])]
            ELSE [ok |-> FALSE, j |-> JUndef]
    [] json.t = "obj" ->
         LET rs == [k \in DOMAIN json.o |-> processJsonTemplate(json.o[k], data)]
         IN IF \A k \in DOMAIN rs : rs[k].ok
            THEN [ok |-> TRUE, j |-> JObj([k \in DOMAIN rs |-> rs[k].j])]
            ELSE [ok |-> FALSE, j |-> JUndef]
    [] OTHER -> [ok |-> TRUE, j |-> json]

(***************************************************************************)
(* Condition matching.                                                     *)
(***************************************************************************)
\* Object.entries(expected): the entries of an object, the indexed elements
\* of an array or a string, none for a number or a boolean.
Entries(expected) == OwnProps(expected)

\* matchValues that also requires actual to have no key beyond expected's.
matchValues_sameKeys(expected, actual) ==
  /\ Truthy(actual)
  /\ DOMAIN OwnProps(actual) = DOMAIN Entries(expected)
  /\ \A k \in DOMAIN Entries(expected) : StrictEq(Prop(actual, k), Entries(expected)[k])

\* matchValues: every entry of expected is strictly equal in actual.
matchValues(expected, actual) ==
  /\ Truthy(actual)
  /\ \A k \in DOMAIN Entries(expected) : StrictEq(Prop(actual, k), Entries(expected)[k])

\* matchValues throws: Object.entries(null) is a TypeError, reached when
\* actual is truthy.
matchValuesThrows(expected, actual) ==
  Truthy(actual) /\ expected.t \in {"null", "undef"}

ReqField(req, field) == IF Has(req, field) THEN req[field] ELSE JUndef

\* checkConditions(conditions, req): conditions is a record of sections.
checkConditions(conditions, req) ==
  \A field \in DOMAIN conditions :
     matchValues(conditions[field], ReqField(req, field))

\* The order in which the configurations here write the sections of
\* conditions, which is the order Object.entries visits them in.
FieldOrder == <<"query", "headers", "body">>

\* checkConditions throws: a section throws before any section fails.
checkConditionsThrows(conditions, req) ==
  \E i \in DOMAIN FieldOrder :
     /\ FieldOrder[i] \in DOMAIN conditions
     /\ matchValuesThrows(conditions[FieldOrder[i]], ReqField(req, FieldOrder[i]))
     /\ \A j \in 1..(i - 1) :
           FieldOrder[j] \in DOMAIN conditions
             => matchValues(conditions[FieldOrder[j]], ReqField(req, FieldOrder[j]))

(***************************************************************************)
(* Configuration documents: what the config file may hold.                 *)
(***************************************************************************)
DocA ==
  [globals |-> [headers |-> ("X-Config" :> "config A")],
   routes |-> JArr(<<
     [method |-> "GET", path |-> "/a", response |-> JObj([msg |-> JStr("A")])],
     [method |-> "GET", path |-> "/slow", delay |-> 500,
      response |-> JObj([msg |-> JStr("slow A")])],
     [method |-> "get", path |-> "/users/:id",
      headers |-> ("X-User" :> "{{id}}"),
      response |-> JObj([id |-> JStr("{{id}}"), name |-> JStr("User {{id}}")])]
   >>)]

DocB ==
  [globals |-> [headers |-> ("X-Config" :> "config B")],
   routes |-> JArr(<<
     [method |-> "GET", path |-> "/a", response |-> JObj([msg |-> JStr("B")])],
     [method |-> "GET", path |-> "/b", response |-> JObj([msg |-> JStr("only B")])],
     [method |-> "GET", path |-> "/premium",
      conditions |-> [query |-> JObj([type |-> JStr("premium")])],
      response |-> JObj([msg |-> JStr("A")]),
      fallback |-> JObj([msg |-> JStr("B")])],
     [method |-> "GET", path |-> "/boom", errorCode |-> 500, errorMessage |-> "boom",
      response |-> JObj([msg |-> JStr("never")])]
   >>)]

\* The routes of the documents P and Q: one route per branch of the route
\* handler.
PipeRoutes ==
  JArr(<<
    [method |-> "GET", path |-> "/cf",
     conditions |-> [query |-> JObj([type |-> JStr("premium")])],
     fallback |-> JObj([msg |-> JStr("{{type}}")]),
     headers |-> ("X-Route" :> "cf"), delay |-> 100,
     response |-> JObj([msg |-> JStr("A")])],
    [method |-> "GET", path |-> "/c400",
     conditions |-> [query |-> JObj([type |-> JStr("premium")])],
     headers |-> ("X-Route" :> "c400"),
     errorCode |-> 418, errorMessage |-> "teapot"],
    [method |-> "GET", path |-> "/cfalse",
     conditions |-> [query |-> JObj([type |-> JStr("premium")])],
     fallback |-> JBool(FALSE),
     response |-> JObj([msg |-> JStr("A")])],
    [method |-> "GET", path |-> "/e", errorCode |-> 500, delay |-> 100,
     headers |-> ("X-Route" :> "e"),
     response |-> JObj([msg |-> JStr("never")])],
    [method |-> "GET", path |-> "/eempty", errorCode |-> 500, errorMessage |-> ""],
    [method |-> "GET", path |-> "/h",
     headers |-> (("X-Ok" :> "ok") @@ ("X-Bad" :> "{{invalid}}")),
     response |-> JObj([msg |-> JStr("A")])],
    [method |-> "GET", path |-> "/r",
     response |-> JObj([a |-> JStr("ok"), b |-> JArr(<<JStr("{{invalid}}")>>)])],
    [method |-> "GET", path |-> "/cnull",
     conditions |-> [query |-> JNull],
     response |-> JObj([msg |-> JStr("A")])],
    [method |-> "GET", path |-> "/slow", delay |-> 500,
     response |-> JObj([msg |-> JStr("slow")])],
    [method |-> "GET", path |-> "/a", response |-> JObj([msg |-> JStr("A")])]
  >>)

\* P: global headers that render.  Q: P with one global header that does
\* not render.
DocP ==
  [globals |-> [headers |-> ("X-Config" :> "config P")], routes |-> PipeRoutes]
DocQ ==
  [globals |-> [headers |-> (("X-Config" :> "config P") @@ ("X-Broken" :> "{{invalid}}"))],
   routes |-> PipeRoutes]

\* R: a route with a path parameter whose header and response render that
\* parameter's name, a route with errorCode 200, a route with a negative
\* delay, the README's login route (a fallback with status and body), a
\* route that sets a security header, and a delayed route that renders
\* responseTime in a header and in the body.
DocR ==
  [globals |-> [headers |-> ("X-Config" :> "config R")],
   routes |-> JArr(<<
     [method |-> "POST", path |-> "/users/:id",
      headers |-> ("X-User" :> "{{id}}"),
      response |-> JObj([id |-> JStr("{{id}}")])],
     [method |-> "GET", path |-> "/e200", errorCode |-> 200],
     [method |-> "GET", path |-> "/neg", delay |-> -1000,
      response |-> JObj([msg |-> JStr("A")])],
     [method |-> "POST", path |-> "/auth/login",
      conditions |-> [body |-> JObj([username |-> JStr("admin")])],
      response |-> JObj([token |-> JStr("eyJ")]),
      fallback |-> JObj([status |-> JNum(401),
                         body |-> JObj([error |-> JStr("Invalid credentials")])])],
     [method |-> "GET", path |-> "/frame",
      headers |-> (("X-Frame-Options" :> "ALLOWALL") @@ ("X-Route" :> "frame")),
      response |-> JObj([msg |-> JStr("A")])],
     [method |-> "GET", path |-> "/timed", delay |-> 100,
      headers |-> ("X-Response-Time" :> "{{responseTime}}"),
      response |-> JObj([responseTime |-> JStr("{{responseTime}}")])]
   >>)]

PipeNames == {"P", "Q", "R"}

\* A document that parses but has no routes array.
DocNoRoutes == [globals |-> [headers |-> ("X-Config" :> "config C")]]

ValidNames == {"A", "B"}
InvalidNames == {"missing", "badjson", "noroutes"}
DocNames == ValidNames \cup InvalidNames

\* The file system and JSON.parse: what readFile + JSON.parse give for a file.
FileContent(name) ==
  CASE name = "missing" -> [exists |-> FALSE, json |-> FALSE, doc |-> <<>>]
    [] name = "badjson" -> [exists |-> TRUE, json |-> FALSE, doc |-> <<>>]
    [] name = "noroutes" -> [exists |-> TRUE, json |-> TRUE, doc |-> DocNoRoutes]
    [] name = "A" -> [exists |-> TRUE, json |-> TRUE, doc |-> DocA]
    [] name = "B" -> [exists |-> TRUE, json |-> TRUE, doc |-> DocB]
    [] name = "P" -> [exists |-> TRUE, json |-> TRUE, doc |-> DocP]
    [] name = "Q" -> [exists |-> TRUE, json |-> TRUE, doc |-> DocQ]
    [] name = "R" -> [exists |-> TRUE, json |-> TRUE, doc |-> DocR]

ConfigOf(name) == FileContent(name).doc
RoutesOf(name) == ConfigOf(name).routes.a

(***************************************************************************)
(* Config validation and loading.                                          *)
(***************************************************************************)
validCorsFields ==
  {"origin", "methods", "allowedHeaders", "exposedHeaders",
   "credentials", "maxAge", "preflightContinue", "optionsSuccessStatus"}
validFields == {"query", "headers", "body"}

\* validateConditions without the check of the keys.
validateConditions_anyKey(conditions) == "ok"

\* validateConditions: "ok" or the message of the thrown error.
validateConditions(conditions) ==
  IF DOMAIN conditions \subseteq validFields THEN "ok" ELSE "Invalid condition fields"

\* The checks of one route without the one for response or errorCode.
ValidateRoute_noResponseCheck(route) ==
  IF ~Has(route, "method") \/ ~Has(route, "path")
  THEN "Each route must have a method and path"
  ELSE IF route.method = "" \/ route.path = ""
  THEN "Each route must have a method and path"
  ELSE IF Has(route, "conditions")
  THEN validateConditions(route.conditions)
  ELSE "ok"

\* The error validateConfig throws for one route, or "ok".
ValidateRoute(route) ==
  IF ~Has(route, "method") \/ ~Has(route, "path")
  THEN "Each route must have a method and path"
  ELSE IF route.method = "" \/ route.path = ""
  THEN "Each route must have a method and path"
  ELSE IF ~(Has(route, "response") /\ Truthy(route.response))
          /\ ~(Has(route, "errorCode") /\ route.errorCode # 0)
  THEN "Each route must have either a response or errorCode"
  ELSE IF Has(route, "conditions")
  THEN validateConditions(route.conditions)
  ELSE "ok"

\* validateConfig: "ok" or the message of the first error thrown.
validateConfig(config) ==
  IF ~Has(config, "routes") THEN "Config must have a \"routes\" array"
  ELSE IF config.routes.t # "arr" THEN "Config must have a \"routes\" array"
  ELSE IF /\ Has(config, "globals")
          /\ Has(config.globals, "cors")
          /\ config.globals.cors.t = "obj"
          /\ ~(DOMAIN config.globals.cors.o \subseteq validCorsFields)
  THEN "Invalid CORS configuration fields"
  ELSE LET rs == config.routes.a
           bad == {i \in DOMAIN rs : ValidateRoute(rs[i]) # "ok"}
       IN IF bad = {} THEN "ok"
          ELSE ValidateRoute(rs[CHOOSE i \in bad : \A j \in bad : i <= j])

\* loadConfig: [ok, err, config]; config is the name of the loaded document.
\* Whatever JSON.parse or validateConfig throws is rethrown by the inner
\* catch as 'Invalid JSON in config file'.
loadConfig(configPath) ==
  LET c == FileContent(configPath)
  IN IF ~c.exists THEN [ok |-> FALSE, err |-> "Config file not found", config |-> "null"]
     ELSE IF ~c.json THEN [ok |-> FALSE, err |-> "Invalid JSON in config file", config |-> "null"]
     ELSE IF validateConfig(c.doc) # "ok"
     THEN [ok |-> FALSE, err |-> "Invalid JSON in config file", config |-> "null"]
     ELSE [ok |-> TRUE, err |-> "", config |-> configPath]

(***************************************************************************)
(* The Express application: a stack of layers.                             *)
(***************************************************************************)
\* A layer: kind, the config its closure captured, for a route layer the
\* index of the route in that config, and whether Express marks it as a
\* route (layer.route) or as middleware.
Layer(kind, cfg, idx, isRoute) == [kind |-> kind, cfg |-> cfg, idx |-> idx, route |-> isRoute]
Use(kind, cfg) == Layer(kind, cfg, 0, FALSE)

\* createMockServer: body parsing middleware.
InitialStack == <<Use("json", "null"), Use("urlencoded", "null")>>

setupCorsMiddleware(cfg) ==
  LET c == ConfigOf(cfg)
      on == <<Use("cors", cfg), Layer("corsPreflight", cfg, 0, TRUE)>>
  IN IF Has(c, "globals") /\ Has(c.globals, "cors")
     THEN IF c.globals.cors.t = "bool" /\ ~c.globals.cors.b THEN <<>> ELSE on
     ELSE on

\* cors(corsOptions).preflightContinue
PreflightContinue(cfg) ==
  LET c == ConfigOf(cfg)
  IN /\ Has(c, "globals") /\ Has(c.globals, "cors")
     /\ c.globals.cors.t = "obj"
     /\ Truthy(Prop(c.globals.cors, "preflightContinue"))

\* cors(corsOptions).optionsSuccessStatus
OptionsSuccessStatus(cfg) ==
  LET c == ConfigOf(cfg)
  IN IF /\ Has(c, "globals") /\ Has(c.globals, "cors")
        /\ c.globals.cors.t = "obj"
        /\ Has(c.globals.cors.o, "optionsSuccessStatus")
     THEN c.globals.cors.o.optionsSuccessStatus.n
     ELSE 204

setupGlobalHeadersMiddleware(cfg) ==
  LET c == ConfigOf(cfg)
  IN IF Has(c, "globals") /\ Has(c.globals, "headers")
     THEN <<Use("globalHeaders", cfg)>> ELSE <<>>

\* setupMiddleware with the shutdown check registered after the header
\* middleware instead of before it.
setupMiddleware_shutdownAfterHeaders(cfg) ==
  setupCorsMiddleware(cfg)
    \o <<Use("responseTime", cfg)>>
    \o setupGlobalHeadersMiddleware(cfg)
    \o <<Use("security", cfg), Use("shutdown", cfg), Use("errorHandler", cfg)>>

\* setupMiddleware: the layers it appends, in order.
setupMiddleware(cfg) ==
  setupCorsMiddleware(cfg)
    \o <<Use("responseTime", cfg), Use("shutdown", cfg)>>
    \o setupGlobalHeadersMiddleware(cfg)
    \o <<Use("security", cfg), Use("errorHandler", cfg)>>

\* setupRoutes: one route layer per configured route, then the 404 handler.
setupRoutes(cfg) ==
  [i \in 1..Len(RoutesOf(cfg)) |-> Layer("route", cfg, i, TRUE)]
    \o <<Use("notFound", cfg)>>

IsMiddleware(layer) == ~layer.route

(***************************************************************************)
(* Requests and route matching.                                            *)
(***************************************************************************)
Lower(m) ==
  CASE m = "GET" -> "get" [] m = "POST" -> "post" [] m = "OPTIONS" -> "options"
    [] OTHER -> m

\* The segments of a path or of a path pattern.
Segs(path) ==
  CASE path = "/a" -> <<"a">>
    [] path = "/b" -> <<"b">>
    [] path = "/slow" -> <<"slow">>
    [] path = "/premium" -> <<"premium">>
    [] path = "/boom" -> <<"boom">>
    [] path = "/zz" -> <<"zz">>
    [] path = "/cf" -> <<"cf">>
    [] path = "/c400" -> <<"c400">>
    [] path = "/cfalse" -> <<"cfalse">>
    [] path = "/e" -> <<"e">>
    [] path = "/eempty" -> <<"eempty">>
    [] path = "/h" -> <<"h">>
    [] path = "/r" -> <<"r">>
    [] path = "/cnull" -> <<"cnull">>
    [] path = "/users/:id" -> <<"users", ":id">>
    [] path = "/users/42" -> <<"users", "42">>
    [] path = "/users/7" -> <<"users", "7">>
    [] OTHER -> <<path>>

ParamSegs == {":id"}
ParamName(seg) == CASE seg = ":id" -> "id" [] OTHER -> seg

PathMatches(pattern, path) ==
  LET p == Segs(pattern)
      a == Segs(path)
  IN /\ Len(p) = Len(a)
     /\ \A i \in DOMAIN p : p[i] \in ParamSegs \/ p[i] = a[i]

\* req.params for a matching pattern.
PathParams(pattern, path) ==
  LET p == Segs(pattern)
      a == Segs(path)
      at(n) == CHOOSE i \in DOMAIN p : p[i] \in ParamSegs /\ ParamName(p[i]) = n
  IN [n \in {ParamName(p[i]) : i \in {j \in DOMAIN p : p[j] \in ParamSegs}} |-> a[at(n)]]

RouteMatches(route, req) ==
  /\ Lower(route.method) = Lower(req.method)
  /\ PathMatches(route.path, req.path)

\* The string fields of a request section, as template data.
TextFields(j) ==
  IF j.t # "obj" THEN <<>>
  ELSE [k \in {x \in DOMAIN j.o : j.o[x].t = "str"} |-> j.o[k].s]

\* The template data with the spreads in the order params, body, query.
TemplateData_queryLast(route, req) ==
  [startTime |-> "t0", responseTime |-> ToString(req.elapsed)] @@ TextFields(req.query)
    @@ TextFields(req.body) @@ PathParams(route.path, req.path)

\* {...req.params, ...req.query, ...req.body}: later spreads win.
\* startTime is a reading of the clock, carried as opaque text; responseTime
\* is Date.now() - req.startTime, the milliseconds req.elapsed that have
\* passed since the request arrived, as the 'responseTime' helper and the
\* responseTime field both give it.
TimeData(req) == [startTime |-> "t0", responseTime |-> ToString(req.elapsed)]
TemplateData(route, req) ==
  TimeData(req) @@ TextFields(req.body) @@ TextFields(req.query)
    @@ PathParams(route.path, req.path)

ErrorBody(msg) == JObj([error |-> JStr(msg)])

\* A request; elapsed is the time since req.startTime at which the handler
\* reads the clock.
Req(method, path, query) ==
  [method |-> method, path |-> path, query |-> JObj(query),
   headers |-> EmptyObj, body |-> EmptyObj, elapsed |-> 0]

\* The request as the handler sees it ms milliseconds after its arrival.
At(req, ms) == [req EXCEPT !.elapsed = ms]

\* A request with a parsed JSON body.
ReqWithBody(method, path, query, body) ==
  [method |-> method, path |-> path, query |-> JObj(query),
   headers |-> EmptyObj, body |-> JObj(body), elapsed |-> 0]

\* The requests clients send.
Requests ==
  {Req("GET", "/a", <<>>), Req("GET", "/b", <<>>), Req("GET", "/slow", <<>>),
   Req("GET", "/premium", [type |-> JStr("premium")]),
   Req("GET", "/premium", [type |-> JStr("basic")]),
   Req("OPTIONS", "/a", <<>>)}

\* The requests clients send to a server that runs document P or Q.
PipeRequests ==
  {Req("GET", p, <<>>) :
     p \in {"/cf", "/c400", "/e", "/eempty", "/h", "/r", "/cnull", "/slow", "/a", "/zz"}}
  \cup {Req("GET", p, [type |-> JStr(t)]) :
          p \in {"/cf", "/c400", "/cfalse"}, t \in {"premium", "basic"}}
  \cup {ReqWithBody("POST", "/users/7", q, b) :
          q \in {<<>>, [id |-> JStr("q")]}, b \in {<<>>, [id |-> JStr("b")]}}
  \cup {Req("GET", p, <<>>) : p \in {"/e200", "/neg", "/frame", "/timed"}}
  \cup {ReqWithBody("POST", "/auth/login", <<>>, [username |-> JStr(u)]) :
          u \in {"admin", "guest"}}

(***************************************************************************)
(* The request pipeline.                                                   *)
(***************************************************************************)
\* What a request has accumulated while walking the stack: the response
\* headers set so far, the pipeline steps that ran for it, and the configs
\* whose closures it went through.
NewRes == [hdrs |-> <<>>, steps |-> {}, cfgs |-> {}]

Respond(acc, status, body) ==
  [kind |-> "respond", status |-> status, body |-> body, hdrs |-> acc.hdrs,
   steps |-> acc.steps, cfgs |-> acc.cfgs, cfg |-> "null", idx |-> 0]
Suspend(acc, cfg, idx) ==
  [kind |-> "suspend", status |-> 0, body |-> JUndef, hdrs |-> acc.hdrs,
   steps |-> acc.steps, cfgs |-> acc.cfgs, cfg |-> cfg, idx |-> idx]

Ran(acc, step) == [acc EXCEPT !.steps = @ \cup {step}]
Via(acc, cfg) == [acc EXCEPT !.cfgs = @ \cup {cfg}]

\* res.set for every header of hs, one that fails to render with its
\* template text as value.
SetHeaders_setsTemplateText(hdrs, hs, data) ==
  [h \in DOMAIN hs |-> IF processTemplate(JStr(hs[h]), data).ok
                       THEN processTemplate(JStr(hs[h]), data).s ELSE hs[h]] @@ hdrs

\* res.set for every header of hs that renders; a header that fails to
\* render is skipped and counted into X-Header-Warning.
SetHeaders(hdrs, hs, data) ==
  LET ok == {h \in DOMAIN hs : processTemplate(JStr(hs[h]), data).ok}
      failed == Cardinality(DOMAIN hs \ ok)
      warn == IF failed > 0
              THEN ("X-Header-Warning" :> ("Failed to process " \o ToString(failed) \o " headers"))
              ELSE <<>>
  IN warn @@ [h \in ok |-> processTemplate(JStr(hs[h]), data).s] @@ hdrs

\* The response rendering without the catch around processJsonTemplate: the
\* template itself is sent when it does not render.
RenderResponse_sendsTemplate(route, req, acc) ==
  LET r == IF Has(route, "response")
           THEN processJsonTemplate(route.response, TemplateData(route, req))
           ELSE [ok |-> TRUE, j |-> JUndef]
      a == Ran(acc, "render")
  IN IF r.ok THEN Respond(a, 200, r.j) ELSE Respond(a, 200, route.response)

\* The response rendering at the end of the route handler.
RenderResponse(route, req, acc) ==
  LET r == IF Has(route, "response")
           THEN processJsonTemplate(route.response, TemplateData(route, req))
           ELSE [ok |-> TRUE, j |-> JUndef]
      a == Ran(acc, "render")
  IN IF r.ok THEN Respond(a, 200, r.j)
     ELSE Respond(a, 500, ErrorBody("Internal server error"))

\* The route handler without its outer try/catch: an exception of the
\* condition check reaches the router, whose default error handler answers
\* 500 with the error text.
RouteHandler_uncaught(layer, req, acc0) ==
  LET route == RoutesOf(layer.cfg)[layer.idx]
      acc == Via(acc0, layer.cfg)
      condFail == Has(route, "conditions") /\ ~checkConditions(route.conditions, req)
      c == IF Has(route, "conditions") THEN Ran(acc, "conditions") ELSE acc
      h == IF Has(route, "headers")
           THEN [Ran(c, "routeHeaders")
                   EXCEPT !.hdrs = SetHeaders(@, route.headers, TemplateData(route, req))]
           ELSE c
  IN IF Has(route, "conditions") /\ checkConditionsThrows(route.conditions, req)
     THEN Respond(Ran(c, "threw"), 500, JStr("TypeError"))
     ELSE IF condFail
     THEN IF Has(route, "fallback") /\ Truthy(route.fallback)
          THEN Respond(Ran(c, "fallback"), 200, route.fallback)
          ELSE Respond(c, 400, ErrorBody("Conditions not met"))
     ELSE IF Has(route, "errorCode") /\ route.errorCode # 0
     THEN Respond(Ran(h, "errorCode"), route.errorCode,
                  ErrorBody(IF Has(route, "errorMessage") /\ route.errorMessage # ""
                            THEN route.errorMessage ELSE "Internal server error"))
     ELSE IF Has(route, "delay") /\ route.delay # 0
     THEN Suspend(Ran(h, "delay"), layer.cfg, layer.idx)
     ELSE RenderResponse(route, req, h)

\* The route handler without the return after res.json(route.fallback): the
\* handler goes on to the headers, the errorCode, the delay and the response.
RouteHandler_fallbackFallsThrough(layer, req, acc0) ==
  LET route == RoutesOf(layer.cfg)[layer.idx]
      acc == Via(acc0, layer.cfg)
      condFail == Has(route, "conditions") /\ ~checkConditions(route.conditions, req)
      c0 == IF Has(route, "conditions") THEN Ran(acc, "conditions") ELSE acc
      sentFallback == condFail /\ Has(route, "fallback") /\ Truthy(route.fallback)
      c == IF sentFallback THEN Ran(c0, "fallback") ELSE c0
      h == IF Has(route, "headers")
           THEN [Ran(c, "routeHeaders")
                   EXCEPT !.hdrs = SetHeaders(@, route.headers, TemplateData(route, req))]
           ELSE c
  IN IF Has(route, "conditions") /\ checkConditionsThrows(route.conditions, req)
     THEN Respond(Ran(Ran(c, "caught"), "threw"), 500, ErrorBody("Internal server error"))
     ELSE IF condFail /\ ~sentFallback
     THEN Respond(c, 400, ErrorBody("Conditions not met"))
     ELSE IF Has(route, "errorCode") /\ route.errorCode # 0
     THEN Respond(Ran(h, "errorCode"), route.errorCode,
                  ErrorBody(IF Has(route, "errorMessage") /\ route.errorMessage # ""
                            THEN route.errorMessage ELSE "Internal server error"))
     ELSE IF Has(route, "delay") /\ route.delay # 0
     THEN Suspend(Ran(h, "delay"), layer.cfg, layer.idx)
     ELSE RenderResponse(route, req, h)

\* The route handler up to its first suspension.
RouteHandler(layer, req, acc0) ==
  LET route == RoutesOf(layer.cfg)[layer.idx]
      acc == Via(acc0, layer.cfg)
      condFail == Has(route, "conditions") /\ ~checkConditions(route.conditions, req)
      c == IF Has(route, "conditions") THEN Ran(acc, "conditions") ELSE acc
      h == IF Has(route, "headers")
           THEN [Ran(c, "routeHeaders")
                   EXCEPT !.hdrs = SetHeaders(@, route.headers, TemplateData(route, req))]
           ELSE c
  IN IF Has(route, "conditions") /\ checkConditionsThrows(route.conditions, req)
     THEN Respond(Ran(Ran(c, "caught"), "threw"), 500, ErrorBody("Internal server error"))
     ELSE IF condFail
     THEN IF Has(route, "fallback") /\ Truthy(route.fallback)
          THEN Respond(Ran(c, "fallback"), 200, route.fallback)
          ELSE Respond(c, 400, ErrorBody("Conditions not met"))
     ELSE IF Has(route, "errorCode") /\ route.errorCode # 0
     THEN Respond(Ran(h, "errorCode"), route.errorCode,
                  ErrorBody(IF Has(route, "errorMessage") /\ route.errorMessage # ""
                            THEN route.errorMessage ELSE "Internal server error"))
     ELSE IF Has(route, "delay") /\ route.delay # 0
     THEN Suspend(Ran(h, "delay"), layer.cfg, layer.idx)
     ELSE RenderResponse(route, req, h)

SecurityHeaders ==
  ("X-Content-Type-Options" :> "nosniff") @@ ("X-Frame-Options" :> "DENY")
    @@ ("X-Powered-By" :> "Express Template Mock Server")

\* A request walking the stack from layer i on; sd is state.isShuttingDown.
RECURSIVE Walk(_, _, _, _, _)
Walk(stack, i, req, sd, acc) ==
  IF i > Len(stack) THEN Respond(acc, 404, JStr("Cannot " \o req.method))
  ELSE
    LET layer == stack[i]
        next(a) == Walk(stack, i + 1, req, sd, a)
    IN CASE layer.kind \in {"cors", "corsPreflight"} ->
              IF req.method = "OPTIONS" /\ ~PreflightContinue(layer.cfg)
              THEN Respond(Ran(acc, "preflight"), OptionsSuccessStatus(layer.cfg), JUndef)
              ELSE next(acc)
         [] layer.kind = "shutdown" ->
              IF sd THEN Respond(Ran(acc, "shutdown"), 503,
                                 ErrorBody("Server is shutting down"))
              ELSE next(acc)
         [] layer.kind = "globalHeaders" ->
              next([Via(Ran(acc, "globalHeaders"), layer.cfg)
                      EXCEPT !.hdrs = SetHeaders(@, ConfigOf(layer.cfg).globals.headers,
                                                 TimeData(req))])
         [] layer.kind = "security" ->
              next([Ran(acc, "security") EXCEPT !.hdrs = SecurityHeaders @@ @])
         [] layer.kind = "route" ->
              IF RouteMatches(RoutesOf(layer.cfg)[layer.idx], req)
              THEN RouteHandler(layer, req, acc)
              ELSE next(acc)
         [] layer.kind = "notFound" ->
              Respond(Ran(acc, "notFound"), 404, ErrorBody("Not Found"))
         [] OTHER -> next(acc)

\* The outcome of a request that arrives now.
Dispatch(stack, req, sd) == Walk(stack, 1, req, sd, NewRes)

(***************************************************************************)
(* State.                                                                  *)
(***************************************************************************)
VARIABLES
  exitCode,        \* "running", or how the process ended: "0", "1", "killed"
  sigHandlers,     \* handleSigterm/handleSigint are registered on the process
  errListeners,    \* 'unhandledRejection' + 'uncaughtException' listeners registered
  logs,            \* the messages log() has written
  file,            \* what the config file holds now
  isShuttingDown,  \* state.isShuttingDown
  shutdownTimeout, \* state.shutdownTimeout is set
  server,          \* state.server: index into listeners, 0 for null
  config,          \* state.config: the loaded document, "null" for null
  watcher,         \* state.watcher is set
  timers,          \* deadline timers armed and not cleared
  stack,           \* app._router.stack
  listeners,       \* the net.Server objects app.listen created
  startPc,         \* where a start() call is: "idle", "loading", "binding"
  stopPc,          \* where a stop() call is: "idle", "watcherClosing", "serverClosing",
                   \* or how the last one ended: "resolved", "rejected"
  gsPc,            \* gracefulShutdown's close callback: "idle", "watcherClosing"
  pendingLoads,    \* reload handlers waiting for readFile
  setups,          \* times setupMiddleware + setupRoutes have run
  inflight,        \* requests suspended in their route's delay
  answered,        \* the response the last step sent (a sequence of at most one)
  signals,         \* SIGTERM/SIGINT signals delivered to the process so far
  called           \* the last direct call of an exported function and its outcome

procVars == <<exitCode, sigHandlers, errListeners, logs, file>>
stateVars == <<isShuttingDown, shutdownTimeout, server, config, watcher>>
appVars == <<stack, setups>>
opVars == <<startPc, stopPc, gsPc, pendingLoads>>
reqVars == <<inflight, answered>>
vars == <<procVars, stateVars, timers, appVars, listeners, opVars, reqVars, signals, called>>

Running == exitCode = "running"

\* No exported function has been called directly.
NoCall == [fn |-> "none"]

\* A step that sends no response and resumes no request.
NoResponse ==
  answered' = <<>> /\ inflight' = inflight /\ signals' = signals /\ called' = called

\* createState + createMockServer: the state after construction.
Init ==
  /\ exitCode = "running"
  /\ sigHandlers = TRUE
  /\ errListeners = 0
  /\ logs = {}
  /\ file \in DocNames
  /\ isShuttingDown = FALSE
  /\ shutdownTimeout = FALSE
  /\ server = 0
  /\ config = "null"
  /\ watcher = FALSE
  /\ timers = 0
  /\ stack = InitialStack
  /\ listeners = <<>>
  /\ startPc = "idle"
  /\ stopPc = "idle"
  /\ gsPc = "idle"
  /\ pendingLoads = 0
  /\ setups = 0
  /\ inflight = <<>>
  /\ answered = <<>>
  /\ signals = 0
  /\ called = NoCall

(***************************************************************************)
(* Listeners (net.Server).                                                 *)
(***************************************************************************)
NewListener == [st |-> "binding", cbs |-> <<>>, conns |-> 0]

\* server.close(cb): stop listening; cb runs on the 'close' event, which is
\* emitted once no connection is left.  On a server that is not listening
\* any more the callback is called with ERR_SERVER_NOT_RUNNING.
ServerClose(ls, i, cb, cbErr) ==
  [ls EXCEPT ![i] = [@ EXCEPT !.st = IF @ = "listening" THEN "closing" ELSE @,
                              !.cbs = Append(@, IF ls[i].st = "listening" THEN cb ELSE cbErr)]]

InflightOn(i) == {k \in DOMAIN inflight : inflight[k].lst = i}

\* The open connections of listener i that wait for a request.
IdleConns(i) == listeners[i].conns - Cardinality(InflightOn(i))

(***************************************************************************)
(* start()                                                                 *)
(***************************************************************************)
\* No stop() call is under way.
NoStopRunning == stopPc \in {"idle", "resolved", "rejected"}

\* The client calls start() on a stopped instance.
Start ==
  /\ Running /\ startPc = "idle" /\ NoStopRunning /\ server = 0
  /\ setups < MaxSetups
  /\ startPc' = "loading"
  /\ stopPc' = "idle"
  /\ UNCHANGED <<procVars, stateVars, timers, appVars, listeners, gsPc, pendingLoads>>
  /\ NoResponse

\* The client calls start() on an instance that is listening: startServer
\* has no guard on state.server.
StartWhileRunning ==
  /\ Running /\ startPc = "idle" /\ NoStopRunning /\ server # 0
  /\ setups < MaxSetups
  /\ startPc' = "loading"
  /\ stopPc' = "idle"
  /\ UNCHANGED <<procVars, stateVars, timers, appVars, listeners, gsPc, pendingLoads>>
  /\ NoResponse

\* chokidar.watch(configPath).on('change', ...): the watcher registration.
WatchConfig == watcher' = TRUE

\* startServer that calls app.listen whether or not the config loaded.
StartLoaded_listenAnyway ==
  /\ Running /\ startPc = "loading"
  /\ LET r == loadConfig(file)
     IN IF ~r.ok
        THEN /\ startPc' = "binding"
             /\ logs' = logs \cup {"Failed to start server"}
             /\ listeners' = Append(listeners, NewListener)
             /\ UNCHANGED <<config, stack, setups, errListeners, watcher>>
        ELSE /\ config' = r.config
             /\ stack' = stack \o setupMiddleware(r.config) \o setupRoutes(r.config)
             /\ setups' = setups + 1
             /\ errListeners' = errListeners + 2
             /\ listeners' = Append(listeners, NewListener)
             /\ WatchConfig
             /\ startPc' = "binding"
             /\ logs' = logs
  /\ UNCHANGED <<exitCode, sigHandlers, file, isShuttingDown, shutdownTimeout, server,
                 timers, stopPc, gsPc, pendingLoads>>
  /\ NoResponse

\* readFile has completed: the rest of startServer up to app.listen.
StartLoaded ==
  /\ Running /\ startPc = "loading"
  /\ LET r == loadConfig(file)
     IN IF ~r.ok
        THEN /\ startPc' = "idle"
             /\ logs' = logs \cup {"Failed to start server"}
             /\ UNCHANGED <<config, stack, setups, errListeners, listeners, watcher>>
        ELSE /\ config' = r.config
             /\ stack' = stack \o setupMiddleware(r.config) \o setupRoutes(r.config)
             /\ setups' = setups + 1
             /\ errListeners' = errListeners + 2
             /\ listeners' = Append(listeners, NewListener)
             /\ WatchConfig
             /\ startPc' = "binding"
             /\ logs' = logs
  /\ UNCHANGED <<exitCode, sigHandlers, file, isShuttingDown, shutdownTimeout, server,
                 timers, stopPc, gsPc, pendingLoads>>
  /\ NoResponse

\* The 'listening' callback of app.listen.
ListenOK ==
  /\ Running /\ startPc = "binding"
  /\ listeners' = [listeners EXCEPT ![Len(listeners)].st = "listening"]
  /\ server' = Len(listeners)
  /\ startPc' = "idle"
  /\ logs' = logs
  /\ UNCHANGED <<exitCode, sigHandlers, errListeners, file, isShuttingDown,
                 shutdownTimeout, config, watcher, timers, appVars, stopPc, gsPc,
                 pendingLoads>>
  /\ NoResponse

\* The 'error' event of the listener (the port cannot be bound): start()
\* rejects.
ListenError ==
  /\ Running /\ startPc = "binding"
  /\ listeners' = [listeners EXCEPT ![Len(listeners)].st = "failed"]
  /\ startPc' = "idle"
  /\ logs' = logs
  /\ UNCHANGED <<exitCode, sigHandlers, errListeners, file, stateVars, timers, appVars,
                 stopPc, gsPc, pendingLoads>>
  /\ NoResponse

(***************************************************************************)
(* Graceful shutdown.                                                      *)
(***************************************************************************)
\* gracefulShutdown that arms the deadline timer only when a listener is
\* recorded, and does nothing more when none is.
gracefulShutdown_timerOnlyWithServer ==
  IF isShuttingDown
  THEN UNCHANGED <<exitCode, logs, isShuttingDown, shutdownTimeout, timers, listeners>>
  ELSE /\ isShuttingDown' = TRUE
       /\ logs' = logs
       /\ exitCode' = exitCode
       /\ IF server # 0
          THEN /\ listeners' = ServerClose(listeners, server, "shutdown", "shutdown")
               /\ timers' = (IF shutdownTimeout THEN timers - 1 ELSE timers) + 1
               /\ shutdownTimeout' = TRUE
          ELSE UNCHANGED <<listeners, timers, shutdownTimeout>>

\* gracefulShutdown without the guard on state.isShuttingDown.
gracefulShutdown_noGuard ==
  /\ isShuttingDown' = TRUE
  /\ timers' = timers + 1
  /\ shutdownTimeout' = TRUE
  /\ logs' = logs
  /\ IF server # 0
     THEN /\ listeners' = ServerClose(listeners, server, "shutdown", "shutdown")
          /\ exitCode' = exitCode
     ELSE /\ exitCode' = "0"
          /\ listeners' = listeners

\* gracefulShutdown that exits right after asking the listener to close,
\* instead of in the callback of server.close.
gracefulShutdown_exitAtOnce ==
  IF isShuttingDown
  THEN UNCHANGED <<exitCode, logs, isShuttingDown, shutdownTimeout, timers, listeners>>
  ELSE /\ isShuttingDown' = TRUE
       /\ timers' = (IF shutdownTimeout THEN timers - 1 ELSE timers) + 1
       /\ shutdownTimeout' = TRUE
       /\ logs' = logs
       /\ exitCode' = "0"
       /\ listeners' = IF server # 0
                       THEN ServerClose(listeners, server, "shutdown", "shutdown")
                       ELSE listeners

\* gracefulShutdown(state).
gracefulShutdown ==
  IF isShuttingDown
  THEN UNCHANGED <<exitCode, logs, isShuttingDown, shutdownTimeout, timers, listeners>>
  ELSE /\ isShuttingDown' = TRUE
       /\ timers' = (IF shutdownTimeout THEN timers - 1 ELSE timers) + 1
       /\ shutdownTimeout' = TRUE
       /\ logs' = logs
       /\ IF server # 0
          THEN /\ listeners' = ServerClose(listeners, server, "shutdown", "shutdown")
               /\ exitCode' = exitCode
          ELSE /\ exitCode' = "0"
               /\ listeners' = listeners

\* SIGTERM or SIGINT is delivered to the process.  Without a registered
\* handler the signal ends the process.
Signal ==
  /\ Running
  /\ signals < MaxSignals
  /\ signals' = signals + 1
  /\ answered' = <<>> /\ inflight' = inflight
  /\ IF sigHandlers
     THEN gracefulShutdown
     ELSE /\ exitCode' = "killed"
          /\ UNCHANGED <<logs, isShuttingDown, shutdownTimeout, timers, listeners>>
  /\ UNCHANGED <<sigHandlers, errListeners, file, server, config, watcher, appVars,
                 opVars, called>>

\* The deadline timer of gracefulShutdown fires.
DeadlineFires ==
  /\ Running /\ timers > 0
  /\ exitCode' = "1"
  /\ logs' = logs \cup {"Forcing shutdown after timeout"}
  /\ UNCHANGED <<sigHandlers, errListeners, file, stateVars, timers, appVars, listeners,
                 opVars>>
  /\ NoResponse

\* The end of stop() without the removeListener calls.
StopFinish_keepsHandlers ==
  /\ timers' = IF shutdownTimeout THEN timers - 1 ELSE timers
  /\ shutdownTimeout' = FALSE
  /\ isShuttingDown' = FALSE
  /\ config' = "null"
  /\ sigHandlers' = sigHandlers
  /\ stopPc' = "resolved"

\* The end of stopServer and of stop(): reset the state, remove the signal
\* handlers.
StopFinish ==
  /\ timers' = IF shutdownTimeout THEN timers - 1 ELSE timers
  /\ shutdownTimeout' = FALSE
  /\ isShuttingDown' = FALSE
  /\ config' = "null"
  /\ sigHandlers' = FALSE
  /\ stopPc' = "resolved"

\* The 'close' event of listener i: no connection is left.  The callbacks of
\* server.close run: that of gracefulShutdown, then the continuation of
\* stopServer.
ServerClosed(i) ==
  /\ Running
  /\ \/ listeners[i].st = "closing"
     \/ listeners[i].st = "closed" /\ listeners[i].cbs # <<>>
  /\ listeners[i].conns = 0
  /\ listeners' = [listeners EXCEPT ![i] = [@ EXCEPT !.st = "closed", !.cbs = <<>>]]
  /\ LET cbs == {listeners[i].cbs[j] : j \in DOMAIN listeners[i].cbs}
         exits == "shutdown" \in cbs /\ ~watcher
     IN /\ logs' = logs \cup (IF ~exits /\ "stopErr" \in cbs
                              THEN {"Error stopping server"} ELSE {})
        /\ exitCode' = IF exits THEN "0" ELSE exitCode
        /\ gsPc' = IF "shutdown" \in cbs /\ watcher THEN "watcherClosing" ELSE gsPc
        /\ IF exits \/ cbs \cap {"stop", "stopErr"} = {}
           THEN UNCHANGED <<timers, shutdownTimeout, isShuttingDown, config, sigHandlers,
                            stopPc, server>>
           ELSE IF "stop" \in cbs
           THEN server' = 0 /\ StopFinish
           ELSE /\ stopPc' = "rejected"
                /\ UNCHANGED <<timers, shutdownTimeout, isShuttingDown, config,
                               sigHandlers, server>>
  /\ UNCHANGED <<errListeners, file, watcher, appVars, startPc, pendingLoads>>
  /\ NoResponse

\* state.watcher.close() of the shutdown callback resolves.
ShutdownWatcherClosed ==
  /\ Running /\ gsPc = "watcherClosing"
  /\ exitCode' = "0"
  /\ logs' = logs
  /\ UNCHANGED <<sigHandlers, errListeners, file, stateVars, timers, appVars, listeners,
                 opVars>>
  /\ NoResponse

\* state.watcher.close() of the shutdown callback rejects.
ShutdownWatcherFailed ==
  /\ Running /\ gsPc = "watcherClosing"
  /\ exitCode' = "1"
  /\ logs' = logs \cup {"Error closing watcher"}
  /\ UNCHANGED <<sigHandlers, errListeners, file, stateVars, timers, appVars, listeners,
                 opVars>>
  /\ NoResponse

(***************************************************************************)
(* stop()                                                                  *)
(***************************************************************************)
\* stopServer from the point where the watcher is closed on.
StopCloseServer ==
  IF server # 0
  THEN /\ listeners' = ServerClose(listeners, server, "stop", "stopErr")
       /\ stopPc' = "serverClosing"
       /\ UNCHANGED <<timers, shutdownTimeout, isShuttingDown, config, sigHandlers>>
  ELSE /\ StopFinish
       /\ listeners' = listeners

\* The client calls stop().
Stop ==
  /\ Running /\ startPc = "idle" /\ NoStopRunning
  /\ IF watcher
     THEN /\ stopPc' = "watcherClosing"
          /\ UNCHANGED <<timers, shutdownTimeout, isShuttingDown, config, sigHandlers,
                         listeners>>
     ELSE StopCloseServer
  /\ UNCHANGED <<exitCode, errListeners, logs, file, server, watcher, appVars, startPc,
                 gsPc, pendingLoads>>
  /\ NoResponse

\* state.watcher.close() of stopServer resolves.
StopWatcherClosed ==
  /\ Running /\ stopPc = "watcherClosing"
  /\ watcher' = FALSE
  /\ StopCloseServer
  /\ UNCHANGED <<exitCode, errListeners, logs, file, server, appVars, startPc, gsPc,
                 pendingLoads>>
  /\ NoResponse

(***************************************************************************)
(* Hot reload.                                                             *)
(***************************************************************************)
WatcherActive == watcher /\ stopPc # "watcherClosing" /\ gsPc # "watcherClosing"

\* The config file is rewritten; an active watcher emits 'change' and the
\* handler starts loadConfig.
FileChange(d) ==
  /\ Running /\ d # file
  /\ file' = d
  /\ IF WatcherActive
     THEN /\ pendingLoads < MaxPendingLoads
          /\ pendingLoads' = pendingLoads + 1
          /\ logs' = logs
     ELSE UNCHANGED <<pendingLoads, logs>>
  /\ UNCHANGED <<exitCode, sigHandlers, errListeners, stateVars, timers, appVars,
                 listeners, startPc, stopPc, gsPc>>
  /\ NoResponse

\* app._router.stack.filter(layer => !layer.route)
ResetRoutes(st) == SelectSeq(st, IsMiddleware)

\* The 'change' handler with a loadConfig that stores the parsed document
\* in state.config before it validates it.
ReloadDone_assignBeforeValidate ==
  /\ Running /\ pendingLoads > 0
  /\ pendingLoads' = pendingLoads - 1
  /\ LET r == loadConfig(file)
     IN IF ~r.ok
        THEN /\ logs' = logs \cup {"Error reloading config"}
             /\ config' = IF FileContent(file).json THEN file ELSE config
             /\ UNCHANGED <<stack, setups, errListeners>>
        ELSE /\ setups < MaxSetups
             /\ config' = r.config
             /\ stack' = ResetRoutes(stack) \o setupMiddleware(r.config)
                           \o setupRoutes(r.config)
             /\ setups' = setups + 1
             /\ errListeners' = errListeners + 2
             /\ logs' = logs \cup {"Routes reloaded successfully"}
  /\ UNCHANGED <<exitCode, sigHandlers, file, isShuttingDown, shutdownTimeout, server,
                 watcher, timers, listeners, startPc, stopPc, gsPc>>
  /\ NoResponse

\* readFile of a reload has completed: the rest of the 'change' handler.
ReloadDone ==
  /\ Running /\ pendingLoads > 0
  /\ pendingLoads' = pendingLoads - 1
  /\ LET r == loadConfig(file)
     IN IF ~r.ok
        THEN /\ logs' = logs \cup {"Error reloading config"}
             /\ UNCHANGED <<config, stack, setups, errListeners>>
        ELSE /\ setups < MaxSetups
             /\ config' = r.config
             /\ stack' = ResetRoutes(stack) \o setupMiddleware(r.config)
                           \o setupRoutes(r.config)
             /\ setups' = setups + 1
             /\ errListeners' = errListeners + 2
             /\ logs' = logs \cup {"Routes reloaded successfully"}
  /\ UNCHANGED <<exitCode, sigHandlers, file, isShuttingDown, shutdownTimeout, server,
                 watcher, timers, listeners, startPc, stopPc, gsPc>>
  /\ NoResponse

(***************************************************************************)
(* Requests.                                                               *)
(***************************************************************************)
\* What is remembered of an answered request, with the state it arrived in.
Answer(req, out, at) ==
  [req |-> req, status |-> out.status, body |-> out.body, hdrs |-> out.hdrs,
   steps |-> out.steps, cfgs |-> out.cfgs, at |-> at]

\* The state a request arrives in.
ArrivalState ==
  [sd |-> isShuttingDown, config |-> config, setups |-> setups,
   reloadFailed |-> "Error reloading config" \in logs,
   reloaded |-> "Routes reloaded successfully" \in logs,
   delayed |-> FALSE, sdAtEnd |-> isShuttingDown, configAtEnd |-> config,
   pending |-> Len(inflight)]

\* A client opens a connection to listener i, up to max open connections.
ConnectUpTo(i, max) ==
  /\ Running
  /\ listeners[i].st = "listening"
  /\ listeners[i].conns < max
  /\ listeners' = [listeners EXCEPT ![i].conns = @ + 1]
  /\ UNCHANGED <<procVars, stateVars, timers, appVars, opVars>>
  /\ NoResponse

Connect(i) == ConnectUpTo(i, MaxConns)

\* A request arrives and its handler does not wait for the route's delay:
\* the response is rendered and sent in the same step.
Arrive_answersAtOnce(i, req) ==
  /\ Running
  /\ IdleConns(i) > 0
  /\ \E ms \in 0..MaxLag :
       LET out == Dispatch(stack, At(req, ms), isShuttingDown)
           sent == IF out.kind = "respond" THEN out
                   ELSE RenderResponse(RoutesOf(out.cfg)[out.idx], At(req, ms), out)
       IN /\ answered' = <<Answer(req, sent, ArrivalState)>>
          /\ inflight' = inflight
  /\ UNCHANGED <<procVars, stateVars, timers, appVars, listeners, opVars, signals,
                 called>>

\* A request arrives over an idle connection of listener i and runs through
\* the stack up to a response or to the route's delay.
Arrive(i, req) ==
  /\ Running
  /\ IdleConns(i) > 0
  /\ \E ms \in 0..MaxLag :
       LET out == Dispatch(stack, At(req, ms), isShuttingDown)
       IN IF out.kind = "respond"
          THEN /\ answered' = <<Answer(req, out, ArrivalState)>>
               /\ inflight' = inflight
          ELSE /\ Len(inflight) < MaxInflight
               /\ inflight' = Append(inflight, [req |-> req, out |-> out, lst |-> i,
                                                at |-> ArrivalState, elapsed |-> ms])
               /\ answered' = <<>>
  /\ UNCHANGED <<procVars, stateVars, timers, appVars, listeners, opVars, signals,
                 called>>

RemoveAt(seq, k) == [j \in 1..(Len(seq) - 1) |-> IF j < k THEN seq[j] ELSE seq[j + 1]]

\* setTimeout(resolve, delay): the timer fires no sooner than delay
\* milliseconds after it was set, and a delay below 1 counts as 1.
TimerDelay(delay) == IF delay < 1 THEN 1 ELSE delay

\* The handler that builds the template data of the response before it
\* awaits the delay.
DelayDone_dataBeforeDelay(k) ==
  /\ Running
  /\ LET s == inflight[k]
         route == RoutesOf(s.out.cfg)[s.out.idx]
         out == RenderResponse(route, At(s.req, s.elapsed), s.out)
     IN answered' = <<Answer(s.req, out, [s.at EXCEPT !.delayed = TRUE,
                                                      !.sdAtEnd = isShuttingDown,
                                                      !.configAtEnd = config])>>
  /\ inflight' = RemoveAt(inflight, k)
  /\ UNCHANGED <<procVars, stateVars, timers, appVars, listeners, opVars, signals,
                 called>>

\* The delay timer of a suspended request fires: the handler renders the
\* response of the route it was registered for, with the clock read anew.
DelayDone(k) ==
  /\ Running
  /\ \E late \in 0..MaxLag :
       LET s == inflight[k]
           route == RoutesOf(s.out.cfg)[s.out.idx]
           now == s.elapsed + TimerDelay(route.delay) + late
           out == RenderResponse(route, At(s.req, now), s.out)
       IN answered' = <<Answer(s.req, out, [s.at EXCEPT !.delayed = TRUE,
                                                        !.sdAtEnd = isShuttingDown,
                                                        !.configAtEnd = config])>>
  /\ inflight' = RemoveAt(inflight, k)
  /\ UNCHANGED <<procVars, stateVars, timers, appVars, listeners, opVars, signals,
                 called>>

\* The client closes an idle connection of listener i.
Disconnect(i) ==
  /\ Running
  /\ IdleConns(i) > 0
  /\ listeners' = [listeners EXCEPT ![i].conns = @ - 1]
  /\ UNCHANGED <<procVars, stateVars, timers, appVars, opVars>>
  /\ NoResponse

(***************************************************************************)
(* Specification.                                                          *)
(***************************************************************************)
Next ==
  \/ Start
  \/ StartLoaded
  \/ ListenOK
  \/ ListenError
  \/ Signal
  \/ DeadlineFires
  \/ \E i \in DOMAIN listeners : ServerClosed(i)
  \/ ShutdownWatcherClosed
  \/ ShutdownWatcherFailed
  \/ Stop
  \/ StopWatcherClosed
  \/ \E d \in DocNames : FileChange(d)
  \/ ReloadDone
  \/ \E i \in DOMAIN listeners : Connect(i)
  \/ \E i \in DOMAIN listeners, req \in Requests : Arrive(i, req)
  \/ \E k \in DOMAIN inflight : DelayDone(k)
  \/ \E i \in DOMAIN listeners : Disconnect(i)

Spec == Init /\ [][Next]_vars

\* A timer that is armed and not cleared fires.
LiveSpec == Spec /\ WF_vars(DeadlineFires)

\* The calls of start() and stop() in any order, start() on a listening
\* instance included, with clients that connect and disconnect.
LifecycleNext ==
  \/ Start
  \/ StartWhileRunning
  \/ StartLoaded
  \/ ListenOK
  \/ ListenError
  \/ Stop
  \/ StopWatcherClosed
  \/ \E i \in DOMAIN listeners : ServerClosed(i)
  \/ \E i \in DOMAIN listeners : Connect(i)
  \/ \E i \in DOMAIN listeners : Disconnect(i)

LifecycleSpec == Init /\ [][LifecycleNext]_vars

\* The request pipeline on its own: the instance is started once, on a
\* document that has a route for every branch of the route handler, and
\* serves requests over up to MaxPipeConns connections, before and during
\* shutdown.
PipeInit ==
  /\ exitCode = "running"
  /\ sigHandlers = TRUE
  /\ errListeners = 0
  /\ logs = {}
  /\ file \in PipeNames
  /\ isShuttingDown = FALSE
  /\ shutdownTimeout = FALSE
  /\ server = 0
  /\ config = "null"
  /\ watcher = FALSE
  /\ timers = 0
  /\ stack = InitialStack
  /\ listeners = <<>>
  /\ startPc = "idle"
  /\ stopPc = "idle"
  /\ gsPc = "idle"
  /\ pendingLoads = 0
  /\ setups = 0
  /\ inflight = <<>>
  /\ answered = <<>>
  /\ signals = 0
  /\ called = NoCall

PipeNext ==
  \/ Start
  \/ StartLoaded
  \/ ListenOK
  \/ Signal
  \/ \E i \in DOMAIN listeners : ConnectUpTo(i, MaxPipeConns)
  \/ \E i \in DOMAIN listeners, req \in PipeRequests : Arrive(i, req)
  \/ \E k \in DOMAIN inflight : DelayDone(k)
  \/ \E i \in DOMAIN listeners : Disconnect(i)

PipeSpec == PipeInit /\ [][PipeNext]_vars

(***************************************************************************)
(* Direct calls of the functions server-utils.js exports and of            *)
(* loadConfig, as the unit tests make them.                                *)
(***************************************************************************)
\* A field that is absent or has one of the values vs.
Opt(k, vs) == {<<>>} \cup {k :> v : v \in vs}

\* Routes as a config document may write them.
ValRoutes ==
  {m @@ p @@ r @@ e @@ d @@ c :
     m \in Opt("method", {"", "GET"}),
     p \in Opt("path", {"", "/a"}),
     r \in Opt("response", {JObj([msg |-> JStr("A")])}),
     e \in Opt("errorCode", {200, 404, 600}),
     d \in Opt("delay", {-1000, 0, 100}),
     c \in Opt("conditions", {[query |-> EmptyObj], [invalidField |-> EmptyObj]})}

GoodRoute == [method |-> "GET", path |-> "/a", response |-> JObj([msg |-> JStr("A")])]

\* Values of globals.cors.
CorsOptions ==
  {JBool(TRUE), JObj([origin |-> JStr("*")]),
   JObj([origin |-> JStr("*"), invalidOption |-> JStr("value")]),
   JObj([invalidOption |-> JStr("value")])}

\* The documents validateConfig is called with.
ValDocs ==
  {[routes |-> JArr(<<r>>)] : r \in ValRoutes}
    \cup {[routes |-> JArr(<<GoodRoute, r>>)] :
            r \in {x \in ValRoutes : ~Has(x, "conditions") /\ ~Has(x, "delay")}}
    \cup {DocNoRoutes, [routes |-> EmptyObj], [routes |-> JArr(<<>>)]}
    \cup {[globals |-> [cors |-> c], routes |-> JArr(<<GoodRoute>>)] : c \in CorsOptions}

\* The files loadConfig is called with.
LoadPaths == DocNames \cup PipeNames

\* Values of a field of a request section or of a condition.
FieldValues ==
  {JStr("admin"), JStr("user"), JNum(1), JNum(2),
   JObj([role |-> JStr("admin")]), JObj([role |-> JStr("user")]),
   JObj([profile |-> JObj([role |-> JStr("admin")])]),
   JArr(<<JStr("read"), JStr("write")>>),
   JArr(<<JStr("read"), JStr("write"), JStr("delete")>>),
   JArr(<<JStr("read"), JStr("delete")>>)}

\* The arguments matchValues is called with.
ExpectedValues ==
  {JObj(("a" :> v)) : v \in FieldValues}
    \cup {EmptyObj, JObj([a |-> JStr("admin"), c |-> JNum(1)]), JNull, JNum(5), JStr("ab")}
ActualValues ==
  {JObj(("a" :> v)) : v \in FieldValues}
    \cup {JObj([a |-> v, c |-> JNum(1)]) : v \in {JStr("admin"), JNum(1)}}
    \cup {EmptyObj, JNull, JUndef, JStr("not an object")}

\* The condition sets (all of them pass validateConditions) and the
\* requests checkConditions is called with; a request may lack a section.
ConditionSets ==
  {q @@ h :
     q \in Opt("query", {JObj([type |-> JStr("premium")]), EmptyObj, JNull, JNum(5),
                         JStr("ab")}),
     h \in Opt("headers", {JObj([authorization |-> JStr("Bearer token")])})}
DirectRequests ==
  {q @@ h :
     q \in Opt("query", {EmptyObj, JObj([type |-> JStr("premium")]),
                         JObj([type |-> JStr("basic")]),
                         JObj([type |-> JStr("premium"), extra |-> JStr("x")])}),
     h \in Opt("headers", {EmptyObj, JObj([authorization |-> JStr("Bearer token")]),
                           JObj([authorization |-> JStr("Bearer token"),
                                 accept |-> JStr("*/*")])})}

\* How a call of matchValues / checkConditions ends: "true", "false" or
\* "threw".
MatchOutcome(expected, actual) ==
  IF matchValuesThrows(expected, actual) THEN "threw"
  ELSE IF matchValues(expected, actual) THEN "true" ELSE "false"
CheckOutcome(conditions, req) ==
  IF checkConditionsThrows(conditions, req) THEN "threw"
  ELSE IF checkConditions(conditions, req) THEN "true" ELSE "false"

\* A direct call leaves the server alone.  The calls are made one per
\* behaviour, on the state after construction.
OnlyCalled == UNCHANGED <<procVars, stateVars, timers, appVars, listeners, opVars,
                          reqVars, signals>>

CallValidateConfig ==
  /\ called = NoCall
  /\ \E doc \in ValDocs :
       called' = [fn |-> "validateConfig", config |-> doc, out |-> validateConfig(doc)]
  /\ OnlyCalled

CallLoadConfig ==
  /\ called = NoCall
  /\ \E path \in LoadPaths :
       called' = [fn |-> "loadConfig", configPath |-> path, out |-> loadConfig(path)]
  /\ OnlyCalled

CallMatchValues ==
  /\ called = NoCall
  /\ \E expected \in ExpectedValues, actual \in ActualValues :
       called' = [fn |-> "matchValues", expected |-> expected, actual |-> actual,
                  out |-> MatchOutcome(expected, actual)]
  /\ OnlyCalled

CallCheckConditions ==
  /\ called = NoCall
  /\ \E conditions \in ConditionSets, req \in DirectRequests :
       called' = [fn |-> "checkConditions", conditions |-> conditions, req |-> req,
                  out |-> CheckOutcome(conditions, req)]
  /\ OnlyCalled

\* The templates processTemplate is called with, and the contexts.
TemplateArgs ==
  {JStr(t) : t \in {"", "Hello", "{{id}}", "User {{id}}", "{{invalid}}", "{{id"}}
    \cup {JNum(5), JBool(TRUE), JNull, JUndef, EmptyObj, JArr(<<JStr("Hello")>>)}
Contexts == {<<>>, [id |-> "123"], [id |-> ""], [id |-> "123", type |-> "premium"]}

\* The values processJsonTemplate is called with.
JsonValues ==
  {JStr(""), JStr("static"), JStr("{{id}}"), JStr("{{id"), JNum(42), JBool(TRUE), JNull,
   JUndef, EmptyObj, JArr(<<>>),
   JArr(<<JStr("static"), JNum(1), JNull>>),
   JArr(<<JStr("{{id}}"), JStr("static")>>),
   JArr(<<JStr("static"), JStr("")>>),
   JObj([msg |-> JStr("")]),
   JObj([msg |-> JStr("A"), n |-> JNum(1), ok |-> JBool(FALSE)]),
   JObj([user |-> JObj([name |-> JStr("Ann"), tags |-> JArr(<<JStr("x"), JNull>>)])]),
   JObj([user |-> JObj([name |-> JStr("User {{id}}"), note |-> JStr("")])]),
   JObj([id |-> JStr("{{id}}"), type |-> JStr("{{type}}")])}

CallProcessTemplate ==
  /\ called = NoCall
  /\ \E template \in TemplateArgs, data \in Contexts :
       called' = [fn |-> "processTemplate", template |-> template, data |-> data,
                  out |-> processTemplate(template, data)]
  /\ OnlyCalled

CallProcessJsonTemplate ==
  /\ called = NoCall
  /\ \E json \in JsonValues, data \in Contexts :
       called' = [fn |-> "processJsonTemplate", json |-> json, data |-> data,
                  out |-> processJsonTemplate(json, data)]
  /\ OnlyCalled

\* req2 is req with further keys in its sections.
AddsKeys(req, req2) ==
  /\ req2 # req
  /\ DOMAIN req2 = DOMAIN req
  /\ \A f \in DOMAIN req :
       /\ DOMAIN req[f].o \subseteq DOMAIN req2[f].o
       /\ \A k \in DOMAIN req[f].o : req2[f].o[k] = req[f].o[k]

\* req without its section f.
WithoutSection(req, f) == [g \in DOMAIN req \ {f} |-> req[g]]

\* checkConditions is called again with the same conditions and the last
\* request changed: keys added to its sections, or one section removed.
CallCheckConditionsAgain ==
  /\ called.fn = "checkConditions" /\ ~Has(called, "from")
  /\ \/ \E req2 \in DirectRequests :
          /\ AddsKeys(called.req, req2)
          /\ called' = [fn |-> "checkConditions", conditions |-> called.conditions,
                        req |-> req2, out |-> CheckOutcome(called.conditions, req2),
                        from |-> [out |-> called.out, change |-> "added",
                                  section |-> "none"]]
     \/ \E f \in DOMAIN called.req :
          called' = [fn |-> "checkConditions", conditions |-> called.conditions,
                     req |-> WithoutSection(called.req, f),
                     out |-> CheckOutcome(called.conditions, WithoutSection(called.req, f)),
                     from |-> [out |-> called.out, change |-> "removed", section |-> f]]
  /\ OnlyCalled

FnNext ==
  \/ CallValidateConfig
  \/ CallLoadConfig
  \/ CallMatchValues
  \/ CallCheckConditions
  \/ CallCheckConditionsAgain
  \/ CallProcessTemplate
  \/ CallProcessJsonTemplate

FnSpec == Init /\ [][FnNext]_vars

(***************************************************************************)
(* Properties.                                                             *)
(***************************************************************************)
\* The response the last step sent, if any.
Answered == {answered[i] : i \in DOMAIN answered}

\* The steps of the pipeline that depend on the configured routes and
\* headers.
RouteSteps ==
  {"globalHeaders", "routeHeaders", "conditions", "fallback", "errorCode", "delay",
   "render", "notFound"}

ShutdownResponse(a) ==
  a.status = 503 /\ a.body = ErrorBody("Server is shutting down")

\* C1 as stated: while isShuttingDown is true every request that reaches the
\* server is answered 503 {error: "Server is shutting down"} and none of
\* the route-specific steps runs for it.
C1_EveryRequestRejected ==
  \A a \in Answered :
     a.at.sd => ShutdownResponse(a) /\ a.steps \cap RouteSteps = {}

\* C1 amended: while isShuttingDown is true no route-specific step runs for
\* any request, and every request other than a preflight (OPTIONS) request
\* is answered 503 {error: "Server is shutting down"}.
C1_ShutdownRejects ==
  \A a \in Answered :
     a.at.sd => /\ a.steps \cap RouteSteps = {}
                /\ a.req.method # "OPTIONS" => ShutdownResponse(a)

\* A request whose conditions match its route is rejected during shutdown.
C1_Witness ==
  \E a \in Answered :
     /\ a.at.sd /\ ShutdownResponse(a)
     /\ a.req.path = "/premium" /\ a.at.config = "B"
     /\ checkConditions(RoutesOf("B")[3].conditions, a.req)

\* The stack of an application that was set up once, with config cfg.
FreshStack(cfg) == InitialStack \o setupMiddleware(cfg) \o setupRoutes(cfg)

\* The response config cfg alone dictates for a request.
ServedBy(cfg, req, sd) ==
  LET out == Dispatch(FreshStack(cfg), req, sd)
  IN IF out.kind = "suspend"
     THEN RenderResponse(RoutesOf(out.cfg)[out.idx], req, out)
     ELSE out

SameResponse(a, out) ==
  a.status = out.status /\ a.body = out.body /\ a.hdrs = out.hdrs

\* A reload whose document does not load completes in this step.
ReloadFails == pendingLoads' = pendingLoads - 1 /\ ~loadConfig(file).ok

OneStart(a) == a.at.setups = (IF a.at.reloaded THEN 2 ELSE 1)

\* C3: after a reload with a valid document has completed, every request
\* that arrives is dispatched by the new config alone (a route only the new
\* config has is served, a route it no longer has is answered 404).
C3_NewConfigAlone ==
  \A a \in Answered :
     (a.at.reloaded /\ OneStart(a) /\ ~a.at.sd)
        => SameResponse(a, ServedBy(a.at.config, a.req, FALSE))

\* C4: every request is handled entirely against one config, the one that
\* was active when it arrived or the one active when it was answered, never
\* against a mixture of the two.
C4_OneConfigPerRequest ==
  \A a \in Answered :
     (OneStart(a) /\ ~a.at.sd)
        => \E c \in {a.at.config, a.at.configAtEnd} :
              SameResponse(a, ServedBy(c, a.req, FALSE))

\* The listener that graceful shutdown closed has finished draining.
Drained ==
  isShuttingDown /\ server # 0 /\ listeners[server].st = "closed"

C6_ShutdownTerminates ==
  isShuttingDown ~> exitCode \in {"0", "1"}

\* Shutdown was triggered while the listener was still binding (start() had
\* not recorded it) and the process went on to exit.
C6_Witness ==
  /\ isShuttingDown /\ server = 0 /\ listeners # <<>>
  /\ exitCode = "0"

\* C7: once shutdown has begun, a further SIGTERM or SIGINT changes no
\* state: no second deadline timer, no second close of the listener.
C7_ShutdownIdempotent ==
  [][(signals' = signals + 1 /\ isShuttingDown)
       => UNCHANGED <<procVars, stateVars, timers, appVars, listeners, opVars,
                      inflight>>]_vars

\* A second signal was delivered during shutdown: one timer is armed and
\* one close callback is registered.
C7_Witness ==
  /\ signals = 2 /\ isShuttingDown /\ Running
  /\ timers = 1 /\ server # 0 /\ listeners[server].cbs = <<"shutdown">>

\* C8: a request that passed the shutdown check before shutdown began and
\* finishes during shutdown receives the response of its route, and the
\* process does not exit with code 0 while a request is unanswered.
C8_AcceptedRequestsDrained ==
  /\ \A a \in Answered :
        (a.at.delayed /\ ~a.at.sd /\ a.at.sdAtEnd)
           => /\ a.status = 200 /\ "render" \in a.steps
              /\ \E c \in a.cfgs : SameResponse(a, ServedBy(c, a.req, FALSE))
  /\ exitCode = "0" => inflight = <<>>

\* A delayed request that arrived before the signal is answered 200 after
\* it.
C8_Witness ==
  \E a \in Answered :
     /\ a.at.delayed /\ ~a.at.sd /\ a.at.sdAtEnd
     /\ a.req.path = "/slow" /\ a.status = 200
     /\ a.body = JObj([msg |-> JStr("slow A")])

\* start() leaves loadConfig with a document that does not load.
StartFails ==
  startPc = "loading" /\ startPc' # "loading" /\ ~loadConfig(file).ok

\* C9: when the config file is missing, is not valid JSON or fails
\* validation, start() rejects and binds no listener: none is created, none
\* is recorded in the state, and the instance stays stopped.
C9_FailedStartBindsNothing ==
  [][StartFails =>
       /\ startPc' = "idle" /\ "Failed to start server" \in logs'
       /\ listeners' = listeners
       /\ server = 0 /\ server' = 0
       /\ config' = config /\ stack' = stack /\ watcher' = watcher
       /\ isShuttingDown' = isShuttingDown /\ exitCode' = exitCode]_vars

\* start() was rejected for a document that fails validation, and no
\* listener exists.
C9_Witness ==
  /\ "Failed to start server" \in logs /\ file = "noroutes"
  /\ startPc = "idle" /\ listeners = <<>> /\ server = 0 /\ config = "null"

\* C10: whenever the instance is running (listening), a SIGTERM or SIGINT
\* starts its graceful shutdown.
C10_SignalStartsShutdown ==
  [][(signals' = signals + 1 /\ server # 0 /\ listeners[server].st = "listening")
       => isShuttingDown']_vars

\* C11: after stop() has resolved no SIGTERM or SIGINT handler of the
\* instance remains on the process.
C11_StopRemovesSignalHandlers ==
  stopPc = "resolved" => ~sigHandlers

\* stop() has resolved on an instance that was started and listening.
C11_Witness ==
  /\ stopPc = "resolved" /\ ~sigHandlers /\ Running
  /\ setups = 1 /\ listeners # <<>> /\ listeners[1].st = "closed"

MatchedRoute(cfg, req) ==
  LET ms == {i \in DOMAIN RoutesOf(cfg) : RouteMatches(RoutesOf(cfg)[i], req)}
  IN IF ms = {} THEN 0 ELSE CHOOSE i \in ms : \A j \in ms : i <= j

\* The responses of route handlers: requests that arrived while the server
\* was not shutting down and matched a route of the config.
Handled ==
  {a \in Answered : /\ ~a.at.sd /\ a.at.config # "null"
                    /\ MatchedRoute(a.at.config, a.req) # 0}

RouteFor(a) == RoutesOf(a.at.config)[MatchedRoute(a.at.config, a.req)]

\* The request of a satisfies the conditions of its route, or the route has
\* none.
ConditionsPass(a) ==
  \/ ~Has(RouteFor(a), "conditions")
  \/ /\ ~checkConditionsThrows(RouteFor(a).conditions, a.req)
     /\ checkConditions(RouteFor(a).conditions, a.req)

ConditionsFail(a) ==
  /\ Has(RouteFor(a), "conditions")
  /\ ~checkConditionsThrows(RouteFor(a).conditions, a.req)
  /\ ~checkConditions(RouteFor(a).conditions, a.req)

\* The route of a has headers and none of them is on the response.
NoRouteHeaders(a) ==
  Has(RouteFor(a), "headers") =>
    \A h \in DOMAIN RouteFor(a).headers : h \notin DOMAIN a.hdrs

\* C13: a request that does not satisfy its route's conditions is answered
\* 200 with the fallback when the route has a fallback and 400
\* {error: "Conditions not met"} otherwise, and the route's headers,
\* errorCode, delay and response template are not applied.
C13_UnmetConditions ==
  \A a \in Handled :
    ConditionsFail(a) =>
      /\ IF Has(RouteFor(a), "fallback")
         THEN a.status = 200 /\ a.body = RouteFor(a).fallback
         ELSE a.status = 400 /\ a.body = ErrorBody("Conditions not met")
      /\ a.steps \cap {"routeHeaders", "errorCode", "delay", "render"} = {}
      /\ NoRouteHeaders(a)
      /\ ~a.at.delayed

\* C14: a request that matches a route with errorCode (conditions absent or
\* satisfied) is answered with that status and {error: errorMessage}, or
\* {error: "Internal server error"} when errorMessage is absent, without the
\* delay and without rendering the response.
C14_ErrorCodeResponse ==
  \A a \in Handled :
    (ConditionsPass(a) /\ Has(RouteFor(a), "errorCode") /\ RouteFor(a).errorCode # 0) =>
      /\ a.status = RouteFor(a).errorCode
      /\ a.body = ErrorBody(IF Has(RouteFor(a), "errorMessage")
                            THEN RouteFor(a).errorMessage
                            ELSE "Internal server error")
      /\ a.steps \cap {"delay", "render"} = {}
      /\ ~a.at.delayed

\* The route of a has a header that does not render.
RouteHeaderFails(a) ==
  /\ Has(RouteFor(a), "headers")
  /\ \E h \in DOMAIN RouteFor(a).headers :
       ~processTemplate(JStr(RouteFor(a).headers[h]), TemplateData(RouteFor(a), a.req)).ok

\* C15: a request whose route has a header that fails to render is answered
\* 500 {error: "Internal server error"}.
C15_RouteHeaderFailureAborts ==
  \A a \in Handled :
    (ConditionsPass(a) /\ RouteHeaderFails(a)) =>
      a.status = 500 /\ a.body = ErrorBody("Internal server error")

\* The responses to requests that went through the global headers of
\* config Q, which has one global header that does not render.
ThroughBrokenGlobals ==
  {a \in Answered : a.at.config = "Q" /\ "globalHeaders" \in a.steps}

PipelineResponses ==
  {a \in Answered : ~a.at.sd /\ "security" \in a.steps}

\* C17: every response of the pipeline while the server is not shutting down
\* carries X-Content-Type-Options: nosniff, X-Frame-Options: DENY and
\* X-XSS-Protection: 1; mode=block.
C17_SecurityHeaders ==
  \A a \in PipelineResponses :
    /\ "X-Content-Type-Options" \in DOMAIN a.hdrs
    /\ a.hdrs["X-Content-Type-Options"] = "nosniff"
    /\ "X-Frame-Options" \in DOMAIN a.hdrs
    /\ a.hdrs["X-Frame-Options"] = "DENY"
    /\ "X-XSS-Protection" \in DOMAIN a.hdrs
    /\ a.hdrs["X-XSS-Protection"] = "1; mode=block"

\* The handler of a reaches the rendering of a response template that does
\* not render.
RenderFails(a) ==
  /\ ConditionsPass(a)
  /\ ~(Has(RouteFor(a), "errorCode") /\ RouteFor(a).errorCode # 0)
  /\ Has(RouteFor(a), "response")
  /\ ~processJsonTemplate(RouteFor(a).response, TemplateData(RouteFor(a), a.req)).ok

\* C18: when the response template does not render the client gets 500 with
\* exactly {error: "Internal server error"}; the process still runs, the
\* listener still listens and a later request to a plain route gets its 200.
C18_RenderFailureIs500 ==
  \A a \in Handled :
    RenderFails(a) =>
      /\ a.status = 500 /\ a.body = ErrorBody("Internal server error")
      /\ Running
      /\ ~a.at.sdAtEnd =>
           /\ server # 0 /\ listeners[server].st = "listening"
           /\ LET out == Dispatch(stack, Req("GET", "/a", <<>>), isShuttingDown)
              IN out.kind = "respond" /\ out.status = 200
                 /\ out.body = JObj([msg |-> JStr("A")])

\* A template with a leaf that does not render inside a nested array was
\* answered 500 and the listener still listens.
C18_Witness ==
  /\ \E a \in Handled : RenderFails(a) /\ a.req.path = "/r" /\ a.status = 500
  /\ Running /\ server # 0 /\ listeners[server].st = "listening"

\* The condition check of a's route throws for a's request.
ConditionsThrow(a) ==
  Has(RouteFor(a), "conditions") /\ checkConditionsThrows(RouteFor(a).conditions, a.req)

ReachesDelay(a) ==
  /\ ConditionsPass(a)
  /\ ~(Has(RouteFor(a), "errorCode") /\ RouteFor(a).errorCode # 0)
  /\ Has(RouteFor(a), "delay") /\ RouteFor(a).delay # 0

\* C20: the response of a request that reaches its route's delay is sent by
\* the delay timer, not in the step in which the request arrives; and a
\* request that arrives while others are suspended and does not reach a
\* delay itself is answered while those are still suspended.
C20_DelaySuspendsOwnRequest ==
  /\ \A a \in Handled : ReachesDelay(a) => a.at.delayed /\ "delay" \in a.steps
  /\ \A a \in Answered :
       (~a.at.delayed /\ a.at.pending > 0) =>
         Len(inflight) = a.at.pending

\* GET /a arrived while GET /slow was suspended and is answered 200 with
\* GET /slow still suspended.
C20_Witness ==
  /\ \E a \in Handled :
       /\ a.req.path = "/a" /\ a.status = 200 /\ ~a.at.delayed /\ a.at.pending = 1
  /\ Len(inflight) = 1 /\ inflight[1].req.path = "/slow"

\* The value the merge of path parameters, query and body gives key k for
\* the request of a: the body's when the body has k, else the query's, else
\* the path parameter's.
MergedValue(a, k) ==
  LET b == TextFields(a.req.body)
      q == TextFields(a.req.query)
      pp == PathParams(RouteFor(a).path, a.req.path)
  IN IF k \in DOMAIN b THEN b[k] ELSE IF k \in DOMAIN q THEN q[k] ELSE pp[k]

MergedKeys(a) ==
  (DOMAIN TextFields(a.req.body) \cup DOMAIN TextFields(a.req.query)
     \cup DOMAIN PathParams(RouteFor(a).path, a.req.path)) \ DOMAIN TimeData(a.req)

\* The readings Date.now() - req.startTime may give while a is handled.
ClockReadings(a) ==
  0..(2 * MaxLag + (IF Has(RouteFor(a), "delay") THEN TimerDelay(RouteFor(a).delay)
                    ELSE 0))

\* The template context the claim describes for the request of a, built ms
\* milliseconds after its arrival.
MergedContext(a, ms) ==
  [k \in MergedKeys(a) |-> MergedValue(a, k)] @@ TimeData(At(a.req, ms))

\* C21: route headers and the response are rendered against the merge of
\* path parameters, query and body, where the body overrides the query and
\* the query overrides the path parameters.
C21_TemplateContextPrecedence ==
  \A a \in Handled :
    ("render" \in a.steps /\ Has(RouteFor(a), "response")) =>
      /\ \E ms \in ClockReadings(a) :
           LET r == processJsonTemplate(RouteFor(a).response, MergedContext(a, ms))
           IN IF r.ok THEN a.status = 200 /\ a.body = r.j ELSE a.status = 500
      /\ Has(RouteFor(a), "headers") =>
           \A h \in DOMAIN RouteFor(a).headers :
             \E ms \in ClockReadings(a) :
               LET v == processTemplate(JStr(RouteFor(a).headers[h]), MergedContext(a, ms))
               IN IF v.ok THEN h \in DOMAIN a.hdrs /\ a.hdrs[h] = v.s
                  ELSE h \notin DOMAIN a.hdrs

\* The key id is a path parameter, a query parameter and a body field of one
\* request, and the header and the response carry the body's value.
C21_Witness ==
  \E a \in Handled :
    /\ a.req.path = "/users/7"
    /\ Prop(a.req.query, "id") = JStr("q") /\ Prop(a.req.body, "id") = JStr("b")
    /\ a.status = 200 /\ a.body = JObj([id |-> JStr("b")])
    /\ "X-User" \in DOMAIN a.hdrs /\ a.hdrs["X-User"] = "b"

\* The checks validateConfig makes of a route in both of its revisions: the
\* route has method and path, response or errorCode, an errorCode within
\* [400, 599] and a delay of at least 0.
HasMethodAndPath(route) ==
  /\ Has(route, "method") /\ route.method # ""
  /\ Has(route, "path") /\ route.path # ""
HasResponseOrErrorCode(route) == Has(route, "response") \/ Has(route, "errorCode")
ErrorCodeInRange(route) == Has(route, "errorCode") => route.errorCode \in 400..599
DelayNotNegative(route) == Has(route, "delay") => route.delay >= 0

RouteSpecInvariant(route) ==
  /\ HasMethodAndPath(route)
  /\ HasResponseOrErrorCode(route)
  /\ DelayNotNegative(route)
  /\ ErrorCodeInRange(route)

\* C22: every route of the active config has method and path, response or
\* errorCode, a delay of at least 0 and an errorCode within [400, 599].
C22_ActiveRoutesValid ==
  config # "null" =>
    \A i \in DOMAIN RoutesOf(config) : RouteSpecInvariant(RoutesOf(config)[i])

\* The document of a direct call of validateConfig, and its routes.
ValidatedDoc == called.config
NoRoutesArray(doc) == ~Has(doc, "routes") \/ doc.routes.t # "arr"
RoutesIn(doc) ==
  IF NoRoutesArray(doc) THEN {} ELSE {doc.routes.a[i] : i \in DOMAIN doc.routes.a}

BadConditionKey(route) ==
  Has(route, "conditions") /\ ~(DOMAIN route.conditions \subseteq {"query", "headers", "body"})

BadCorsKey(doc) ==
  /\ Has(doc, "globals") /\ Has(doc.globals, "cors") /\ doc.globals.cors.t = "obj"
  /\ \E k \in DOMAIN doc.globals.cors.o :
       k \notin {"origin", "methods", "allowedHeaders", "exposedHeaders", "credentials",
                 "maxAge", "preflightContinue", "optionsSuccessStatus"}

\* C23: validateConfig throws for a document without a routes array, with a
\* route whose method or path is missing or empty, with a route whose
\* conditions have a key other than query, headers, body, or with a
\* globals.cors object that has a key outside the CORS option set.
C23_ValidateConfigRejects ==
  called.fn = "validateConfig" =>
    ((\/ NoRoutesArray(ValidatedDoc)
      \/ \E r \in RoutesIn(ValidatedDoc) : ~HasMethodAndPath(r) \/ BadConditionKey(r)
      \/ BadCorsKey(ValidatedDoc))
       => called.out # "ok")

\* validateConfig threw for a document whose only flaw is a condition key
\* other than query, headers, body.
C23_Witness ==
  /\ called.fn = "validateConfig"
  /\ ~NoRoutesArray(ValidatedDoc) /\ ~BadCorsKey(ValidatedDoc)
  /\ \A r \in RoutesIn(ValidatedDoc) : HasMethodAndPath(r) /\ HasResponseOrErrorCode(r)
  /\ \E r \in RoutesIn(ValidatedDoc) : BadConditionKey(r)
  /\ called.out = "Invalid condition fields"

\* C24: validateConfig throws for a route whose errorCode is outside
\* [400, 599] and for a route whose delay is below 0.
C24_ValidateConfigRejectsRanges ==
  called.fn = "validateConfig" =>
    ((\E r \in RoutesIn(ValidatedDoc) : ~ErrorCodeInRange(r) \/ ~DelayNotNegative(r))
       => called.out # "ok")

\* C25: validateConfig throws for a route that has neither response nor
\* errorCode.
C25_ValidateConfigRejectsEmptyRoute ==
  called.fn = "validateConfig" =>
    ((\E r \in RoutesIn(ValidatedDoc) : ~HasResponseOrErrorCode(r)) => called.out # "ok")

\* validateConfig threw for a route with method and path and neither
\* response nor errorCode.
C25_Witness ==
  /\ called.fn = "validateConfig"
  /\ \E r \in RoutesIn(ValidatedDoc) : ~HasResponseOrErrorCode(r)
  /\ \A r \in RoutesIn(ValidatedDoc) : HasMethodAndPath(r) /\ ~BadConditionKey(r)
  /\ called.out = "Each route must have either a response or errorCode"

\* C26: loadConfig fails with 'Invalid JSON in config file' for content that
\* is not JSON and with 'Config must have a "routes" array' for a document
\* that parses and has no routes array.
C26_LoadConfigErrorsDistinct ==
  called.fn = "loadConfig" =>
    LET c == FileContent(called.configPath)
    IN /\ (c.exists /\ ~c.json) =>
            ~called.out.ok /\ called.out.err = "Invalid JSON in config file"
       /\ (c.exists /\ c.json /\ NoRoutesArray(c.doc)) =>
            ~called.out.ok /\ called.out.err = "Config must have a \"routes\" array"

\* Equality of values as the tests of the matcher read it: scalars by
\* strict equality, a nested object structurally on every key of the
\* expected one, arrays element for element.
RECURSIVE DeepEq(_, _)
DeepEq(e, a) ==
  /\ e.t = a.t
  /\ CASE e.t = "obj" ->
            \A k \in DOMAIN e.o : k \in DOMAIN a.o /\ DeepEq(e.o[k], a.o[k])
       [] e.t = "arr" ->
            Len(e.a) = Len(a.a) /\ \A i \in DOMAIN e.a : DeepEq(e.a[i], a.a[i])
       [] OTHER -> StrictEq(e, a)

\* C27: matchValues(expected, actual) is true exactly when every key of
\* expected is in actual with an equal value: scalars strictly equal, nested
\* objects structurally equal, arrays equal element for element.
C27_MatchValuesStructural ==
  (called.fn = "matchValues" /\ called.expected.t = "obj" /\ called.actual.t = "obj") =>
    (called.out = "true" <=>
       \A k \in DOMAIN called.expected.o :
          k \in DOMAIN called.actual.o
            /\ DeepEq(called.expected.o[k], called.actual.o[k]))

\* The call compares an expected array with the array of the request under
\* key a.
ArrayCondition ==
  /\ called.fn = "matchValues"
  /\ called.expected.t = "obj" /\ DOMAIN called.expected.o = {"a"}
  /\ called.expected.o.a.t = "arr"
  /\ called.actual.t = "obj" /\ Has(called.actual.o, "a") /\ called.actual.o.a.t = "arr"

Elements(arr) == {arr.a[i] : i \in DOMAIN arr.a}

\* C28: an expected array matches when the request's array contains every
\* expected element, and does not match otherwise.
C28_ArrayContainment ==
  ArrayCondition =>
    (called.out = "true" <=>
       Elements(called.expected.o.a) \subseteq Elements(called.actual.o.a))

\* C29: when a request satisfies a condition set, the request with further
\* keys in its sections satisfies it too, and the request without a section
\* the condition set names does not.
C29_MatchingMonotonic ==
  (called.fn = "checkConditions" /\ Has(called, "from") /\ called.from.out = "true") =>
    /\ called.from.change = "added" => called.out = "true"
    /\ (called.from.change = "removed" /\ called.from.section \in DOMAIN called.conditions)
         => called.out = "false"

\* A request that satisfied a condition on its query was given a further
\* query key and still satisfies it.
C29_Witness ==
  /\ called.fn = "checkConditions" /\ Has(called, "from")
  /\ called.from.out = "true" /\ called.from.change = "added"
  /\ Has(called.conditions, "query")
  /\ called.conditions.query = JObj([type |-> JStr("premium")])
  /\ Has(called.req, "query") /\ Has(called.req.query.o, "extra")
  /\ called.out = "true"

\* C30: for a condition set validateConfig accepts, checkConditions returns
\* a boolean and does not throw.
C30_CheckConditionsNeverThrows ==
  (called.fn = "checkConditions" /\ validateConditions(called.conditions) = "ok") =>
    called.out \in {"true", "false"}

\* The value has no template syntax: its string leaves hold no mustache.
RECURSIVE NoTemplateSyntax(_)
NoTemplateSyntax(json) ==
  CASE json.t = "str" -> \A i \in DOMAIN Compile(json.s) : Compile(json.s)[i].k = "lit"
    [] json.t = "arr" -> \A i \in DOMAIN json.a : NoTemplateSyntax(json.a[i])
    [] json.t = "obj" -> \A k \in DOMAIN json.o : NoTemplateSyntax(json.o[k])
    [] OTHER -> TRUE

\* The value has an empty string among its leaves.
RECURSIVE HasEmptyString(_)
HasEmptyString(json) ==
  CASE json.t = "str" -> json.s = ""
    [] json.t = "arr" -> \E i \in DOMAIN json.a : HasEmptyString(json.a[i])
    [] json.t = "obj" -> \E k \in DOMAIN json.o : HasEmptyString(json.o[k])
    [] OTHER -> FALSE

\* A JSON value of the response kind: objects, arrays, strings, numbers,
\* booleans, null.
ResponseValue(json) == json.t # "undef"

StatusBodyFallback(a) ==
  /\ Has(RouteFor(a), "fallback")
  /\ RouteFor(a).fallback.t = "obj"
  /\ Has(RouteFor(a).fallback.o, "status") /\ Has(RouteFor(a).fallback.o, "body")
  /\ RouteFor(a).fallback.o.status.t = "num"

\* C33: a request that fails the conditions of a route whose fallback is an
\* object with status and body is answered with that status and with the
\* fallback's body field as body.
C33_FallbackStatusAndBody ==
  \A a \in Handled :
    (ConditionsFail(a) /\ StatusBodyFallback(a)) =>
      /\ a.status = RouteFor(a).fallback.o.status.n
      /\ a.body = RouteFor(a).fallback.o.body

\* C34: the fallback sent for a request that fails its route's conditions
\* is the fallback rendered against the request context.
C34_FallbackRendered ==
  \A a \in Handled :
    (ConditionsFail(a) /\ "fallback" \in a.steps) =>
      \E ms \in ClockReadings(a) :
        LET r == processJsonTemplate(RouteFor(a).fallback, MergedContext(a, ms))
        IN r.ok /\ a.body = r.j

\* The route has a delay, a header X-Response-Time and a response field
\* responseTime, both the template {{responseTime}}.
RendersResponseTime(route) ==
  /\ Has(route, "delay") /\ route.delay > 0
  /\ Has(route, "headers") /\ Has(route.headers, "X-Response-Time")
  /\ route.headers["X-Response-Time"] = "{{responseTime}}"
  /\ Has(route, "response") /\ route.response.t = "obj"
  /\ Has(route.response.o, "responseTime")
  /\ route.response.o.responseTime = JStr("{{responseTime}}")

\* C35: for a route with delay d the route headers are rendered before the
\* delay and the body after it: a request that waits in the delay already
\* carries the rendered route headers and no body, the {{responseTime}} of
\* the body is at least d, and it is not smaller than the {{responseTime}}
\* of the same request's header.
C35_BodyRenderedAfterDelay ==
  /\ \A k \in DOMAIN inflight :
       LET route == RoutesOf(inflight[k].out.cfg)[inflight[k].out.idx]
       IN /\ inflight[k].out.body = JUndef
          /\ RendersResponseTime(route) =>
               /\ Has(inflight[k].out.hdrs, "X-Response-Time")
               /\ inflight[k].out.hdrs["X-Response-Time"] = ToString(inflight[k].elapsed)
  /\ \A a \in Handled :
       (a.at.delayed /\ RendersResponseTime(RouteFor(a))) =>
         \E h \in ClockReadings(a), b \in ClockReadings(a) :
           /\ a.hdrs["X-Response-Time"] = ToString(h)
           /\ a.status = 200
           /\ a.body = JObj([responseTime |-> JStr(ToString(b))])
           /\ b >= RouteFor(a).delay
           /\ b >= h

\* The delayed route was answered with a header rendered 1 ms and a body
\* rendered 101 ms after the request arrived.
C35_Witness ==
  \E a \in Handled :
    /\ a.at.delayed /\ a.req.path = "/timed" /\ a.status = 200
    /\ a.hdrs["X-Response-Time"] = "1"
    /\ a.body = JObj([responseTime |-> JStr("101")])

\* The steps of the pipeline that send a response (res.json, res.end).
SendingSteps ==
  {"preflight", "shutdown", "fallback", "errorCode", "render", "notFound", "caught"}

\* The responses sent while a was handled, one per sending step that ran;
\* the 400 of unmet conditions is the one send of its path.
Sends(a) ==
  Cardinality(a.steps \cap SendingSteps)
    + (IF a.status = 400 /\ a.body = ErrorBody("Conditions not met") THEN 1 ELSE 0)

\* C36: every request gets at most one response: one sending step has run
\* for an answered request and none for a request that waits in its delay,
\* a step answers at most one request, and a request that leaves the delay
\* is answered in that step and by no other.
C36_AtMostOneResponse ==
  /\ [](\A a \in Answered : Sends(a) = 1)
  /\ [](\A k \in DOMAIN inflight : inflight[k].out.steps \cap SendingSteps = {})
  /\ [][/\ Len(answered') <= 1
        /\ Len(inflight') < Len(inflight) =>
             /\ Len(inflight') = Len(inflight) - 1
             /\ (Running' => /\ Len(answered') = 1
                             /\ answered'[1].at.delayed
                             /\ \E k \in DOMAIN inflight :
                                  /\ answered'[1].req = inflight[k].req
                                  /\ inflight' = RemoveAt(inflight, k))
        /\ Len(inflight') > Len(inflight) => answered' = <<>>]_vars

\* A request that waited in its delay while shutdown began is answered
\* once, by the rendering step.
C36_Witness ==
  \E a \in Answered :
    /\ a.at.delayed /\ a.at.sdAtEnd /\ a.status = 200
    /\ a.steps \cap SendingSteps = {"render"}
    /\ inflight = <<>>

\* Listener i is bound to its port and close() has not been called on it.
Bound(i) == listeners[i].st = "listening"

\* C37: every listener that is bound is the one recorded in the server
\* state; any other listener that was bound has been closed.
C37_OneBoundListener ==
  \A i \in DOMAIN listeners : Bound(i) => i = server

\* A signal has started graceful shutdown and no stop() has reset it.
ShutdownInProgress == isShuttingDown /\ signals > 0 /\ Running

MiddlewareLayers(st) == Len(ResetRoutes(st))

\* C39: the process-level error listeners and the middleware layers of the
\* instance never exceed what one setup registers, however often the server
\* was started, stopped or reloaded.
C39_RegistrationsBounded ==
  /\ errListeners <= 2
  /\ \E c \in ValidNames : MiddlewareLayers(stack) <= MiddlewareLayers(FreshStack(c))

\* C40: on every response that carries them, X-Content-Type-Options and
\* X-Frame-Options have their fixed values, whatever the global and the
\* route headers of the active config set.
C40_SecurityBaselineKept ==
  \A a \in Answered :
    \A h \in {"X-Content-Type-Options", "X-Frame-Options"} :
      Has(a.hdrs, h) => a.hdrs[h] = SecurityHeaders[h]

====
